---- MODULE Spec2Model ----
(***************************************************************************)
(* Order processing core of Blitz-API (store/serializers.py).              *)
(*                                                                         *)
(* Every request is a process that runs OrderSerializer.create.  The       *)
(* database gives read-committed transactions: a statement reads the       *)
(* committed rows plus the rows its own transaction wrote, an UPDATE of a  *)
(* row waits for the transaction that holds an uncommitted write of it,    *)
(* and everything written inside `with transaction.atomic()` is applied at *)
(* commit or dropped by the exception that leaves the block.               *)
(***************************************************************************)
EXTENDS Integers, Sequences, FiniteSets, TLC

\* ---------------------------------------------------------------- bounds
MaxLines == 2        \* order lines in one cart
MaxTickets == 1      \* ticket balance of a user before the orders
MaxReservedSeats == 1   \* reserved_seats of a retirement before the orders
MaxCoupons == 2      \* coupons created through CouponSerializer
MaxTotal == 8000     \* total cost, in cents, of an order that is priced
MaxPrice == 2        \* price of a timeslot, in tickets
MaxSeats == 2        \* seats of a retirement
MaxCustomPrice == 40 \* price of a custom payment, in thousandths

\* ------------------------------------------------------------ catalogue
Procs == {"p1", "p2"}
Users == {"u1", "u2"}
Timeslots == {"t1"}
Retirements == {"r1"}
ProductTypes == {"membership", "package", "timeslot", "retirement"}

\* Products the order lines refer to: price in cents (a timeslot's price is
\* in tickets), days of a membership, tickets credited by a package, seats
\* of the timeslot's workplace and of the retirement.
Catalog ==
    [membership |-> [price |-> 1000, duration |-> 365],
     package    |-> [price |-> 2000, reservations |-> 1],
     timeslot   |-> [price |-> 1, seats |-> 1],
     retirement |-> [price |-> 3000, seats |-> 1]]

\* TAX_RATE = settings.LOCAL_SETTINGS['SELLING_TAX'], as a fraction in lowest
\* terms (0.14975).
TAX_RATE == [num |-> 599, den |-> 4000]

\* The coupons an order can present: the discount, either a value in cents
\* or percent_off, the other being zero, and the usage caps.
Coupons ==
    [c10 |-> [value |-> 0, percent_off |-> 10,
              max_use |-> 2, max_use_per_user |-> 1],
     c25 |-> [value |-> 2500, percent_off |-> 0,
              max_use |-> 1, max_use_per_user |-> 1]]
CouponCodes == {"c10", "c25"}
CouponTypes == {"membership", "package", "retirement"}
NoCoupon == "none"

\* ---------------------------------------------------------------- state
VARIABLES
    req,            \* req[p]: the validated data of request p
    pc,             \* pc[p]: where request p is in OrderSerializer.create
    err,            \* err[p]: the error request p was rejected with
    local,          \* local[p]: the local variables of the call
    tx,             \* tx[p]: the uncommitted writes of p's transaction
    ext,            \* ext[p]: the external payment calls p made, in order
    users,          \* User rows: tickets, membership, phone and city
    profiles,       \* owners of a PaymentProfile row
    orders,         \* Order rows with their OrderLine rows
    reservations,   \* workplace Reservation rows
    retirement_reservations,    \* retirement Reservation rows
    reserved_seats, \* Retirement.reserved_seats
    wait_queue,     \* WaitQueue rows
    notifications,  \* WaitQueueNotification rows
    coupon_uses,    \* CouponUser.uses per coupon and user
    before,         \* before[p]: the database as it was when p started
    stored_coupons, \* Coupon rows written through CouponSerializer, by id
    coupon_response,    \* the last CouponSerializer request and its outcome
    quote,          \* the tax and the amounts computed for a total cost
    workplace,      \* whether the period of each timeslot has a workplace
    line_check,     \* an order line, its user and product, and its validation
    slots,          \* TimeSlot rows: start_time, end_time, price
    seats,          \* the seats of each retirement
    order_update,   \* the last update of an order and its outcome
    custom_payments,   \* CustomPayment rows
    payment_response,  \* the custom payment asked for and its outcome
    update_response \* the last update of a timeslot and its outcome

vars == <<req, pc, err, local, tx, ext, users, profiles, orders, reservations,
          retirement_reservations, reserved_seats, wait_queue, notifications,
          coupon_uses, before, stored_coupons, coupon_response, quote,
          workplace, line_check, slots, update_response, seats, order_update,
          custom_payments, payment_response>>

\* What the coupon administration writes.
CouponAdmin == <<stored_coupons, coupon_response>>

\* What the administration of the timeslots writes besides the
\* reservations and the users.
TimeslotAdmin == <<slots, update_response>>

\* What the creation of a custom payment writes.
PaymentAdmin == <<custom_payments, payment_response>>

\* What the creation of an order leaves alone.
Outside ==
    <<CouponAdmin, quote, workplace, line_check, TimeslotAdmin, seats,
      order_update, PaymentAdmin>>

\* The tables the atomic block of create() writes.
Tables == <<users, orders, reservations, retirement_reservations,
            reserved_seats, wait_queue, coupon_uses>>

\* The content of the database.
Snapshot ==
    [users |-> users, profiles |-> profiles, orders |-> orders,
     reservations |-> reservations,
     retirement_reservations |-> retirement_reservations,
     reserved_seats |-> reserved_seats, wait_queue |-> wait_queue,
     coupon_uses |-> coupon_uses]
TablesOf(s) ==
    <<s.users, s.orders, s.reservations, s.retirement_reservations,
      s.reserved_seats, s.wait_queue, s.coupon_uses>>

\* ------------------------------------------------------------- helpers
RECURSIVE SumSeq(_)
SumSeq(s) == IF s = <<>> THEN 0 ELSE Head(s) + SumSeq(Tail(s))

RECURSIVE SumOver(_, _)
SumOver(f, S) ==
    IF S = {} THEN 0
    ELSE LET x == CHOOSE y \in S : TRUE IN f[x] + SumOver(f, S \ {x})

Abs(n) == IF n < 0 THEN -n ELSE n
Sign(n) == IF n < 0 THEN -1 ELSE 1

\* Python's int(): truncation toward zero of n/d.
Trunc(n, d) == Sign(n) * (Abs(n) \div d)

\* Python's round() of a Decimal: n/d rounded to the nearest integer, ties
\* to the even one.
RoundHalfEven(n, d) ==
    LET q == Abs(n) \div d
        r == Abs(n) % d
    IN Sign(n) * (IF 2 * r > d \/ (2 * r = d /\ q % 2 = 1) THEN q + 1 ELSE q)


\* ------------------------------------------------------------- requests
\* OrderLineSerializer.validate: the cost of a membership, package or
\* retirement line is price * quantity; a timeslot line keeps the default.
ValidateLine(type, id, quantity) ==
    [content_type |-> type, object_id |-> id, quantity |-> quantity,
     cost |-> IF type \in {"membership", "package", "retirement"}
              THEN Catalog[type].price * quantity ELSE 0,
     coupon |-> NoCoupon, coupon_real_value |-> 0]

LineItems ==
    {ValidateLine("membership", "m1", 1), ValidateLine("package", "k1", 1)}
    \cup {ValidateLine("timeslot", t, 1) : t \in Timeslots}
    \cup {ValidateLine("retirement", r, 1) : r \in Retirements}

Carts == UNION {[1..n -> LineItems] : n \in 1..MaxLines}

Requests ==
    [user : Users, order_lines : Carts, payment_token : BOOLEAN,
     single_use_token : BOOLEAN, coupon : CouponCodes \cup {NoCoupon}]

\* The indices of the order lines of one content type, in creation order
\* (order.order_lines.filter(content_type__model=type)).
IndicesOfType(lines, type) ==
    SelectSeq([k \in 1..Len(lines) |-> k],
              LAMBDA k : lines[k].content_type = type)

HasType(lines, type) == \E k \in 1..Len(lines) : lines[k].content_type = type

\* ------------------------------------------------- transaction and locals
EmptyTx ==
    [order |-> <<>>, reservations |-> {}, retirement_reservations |-> {},
     user |-> <<>>, reserved_seats |-> <<>>, wait_queue_deleted |-> {},
     coupon_uses |-> <<>>]

\* timezone.now().date(): dates are days counted from today.
Today == 0

\* The cancelation fields of a reservation that was not cancelled.
NoReason == ""
NoDate == -1

\* A user's membership: none, the product m1 an order line can name, or
\* another product m0, with the day it ends.
NoMembership == "none"
Memberships == {NoMembership, "m0", "m1"}

UserRows ==
    [tickets : Int, membership : Memberships, membership_end : Int,
     complete : BOOLEAN]
DefaultUser ==
    [tickets |-> 0, membership |-> NoMembership, membership_end |-> Today,
     complete |-> TRUE]

EmptyLocal ==
    [user |-> DefaultUser, need_transaction |-> FALSE, amount |-> 0,
     charge_response |-> FALSE, i |-> 1, waits |-> {}]

InAtomic == {"products", "timeslots", "retirements", "charge", "commit"}

\* What a statement of p's transaction reads: the committed rows and the
\* rows p wrote itself.
ViewReservations(p) == reservations \cup tx[p].reservations
ViewRetirementReservations(p) ==
    retirement_reservations \cup tx[p].retirement_reservations
ViewReservedSeats(p, r) ==
    IF r \in DOMAIN tx[p].reserved_seats
    THEN tx[p].reserved_seats[r] ELSE reserved_seats[r]
ViewWaitQueue(p) == wait_queue \ tx[p].wait_queue_deleted
ViewCouponUses(p, c, u) ==
    IF u = req[p].user /\ c = req[p].coupon /\ tx[p].coupon_uses # <<>>
    THEN tx[p].coupon_uses[1] ELSE coupon_uses[c][u]

\* The other transactions that hold an uncommitted write of a row p is
\* about to write: p's statement completes once they have ended.
UserRowHolders(p) ==
    {q \in Procs \ {p} : req[q].user = req[p].user /\ tx[q].user # <<>>}
RetirementRowHolders(p, r) ==
    {q \in Procs \ {p} : r \in DOMAIN tx[q].reserved_seats}
CouponUserRowHolders(p) ==
    {q \in Procs \ {p} : /\ req[q].user = req[p].user
                         /\ req[q].coupon = req[p].coupon
                         /\ tx[q].coupon_uses # <<>>}
Ready(p) == \A q \in local[p].waits : pc[q] \notin InAtomic

\* --------------------------------------------------------- control flow
\* The charge placed before the retirement block.
PhasesChargeEarly == <<"products", "timeslots", "charge", "retirements">>

\* The timeslot block before the package block.
PhasesTimeslotsFirst == <<"timeslots", "products", "retirements", "charge">>

\* The blocks of the atomic section in the order the code runs them; a
\* block whose queryset of order lines is empty is skipped.
Phases == <<"products", "timeslots", "retirements", "charge">>

HasWork(phase, lines) ==
    CASE phase = "products" ->
            HasType(lines, "membership") \/ HasType(lines, "package")
      [] phase = "timeslots" -> HasType(lines, "timeslot")
      [] phase = "retirements" -> HasType(lines, "retirement")
      [] OTHER -> TRUE

PhaseIndex(phase) ==
    IF \E j \in 1..Len(Phases) : Phases[j] = phase
    THEN CHOOSE j \in 1..Len(Phases) : Phases[j] = phase ELSE 0

\* The block that runs after `phase` ("order" is the opening of the atomic
\* block); after the last one the atomic block ends.
PhaseAfter(phase, lines) ==
    LET k == PhaseIndex(phase)
        later == {j \in (k + 1)..Len(Phases) : HasWork(Phases[j], lines)}
    IN IF later = {} THEN "commit"
       ELSE Phases[CHOOSE j \in later : \A h \in later : j <= h]

\* The writes of p's transaction reach the tables.
Apply(p) ==
    LET t == tx[p]
        u == req[p].user
        c == req[p].coupon
    IN /\ orders' = orders \cup {t.order[k] : k \in DOMAIN t.order}
       /\ users' = IF t.user = <<>> THEN users
                   ELSE [users EXCEPT ![u] = t.user[1]]
       /\ reservations' = reservations \cup t.reservations
       /\ retirement_reservations' =
              retirement_reservations \cup t.retirement_reservations
       /\ reserved_seats' =
              [r \in Retirements |->
                  IF r \in DOMAIN t.reserved_seats
                  THEN t.reserved_seats[r] ELSE reserved_seats[r]]
       /\ wait_queue' = wait_queue \ t.wait_queue_deleted
       /\ coupon_uses' =
              IF t.coupon_uses = <<>> THEN coupon_uses
              ELSE [coupon_uses EXCEPT ![c][u] = t.coupon_uses[1]]

\* The writes of p's transaction are kept although create() fails.
RaiseWithoutRollback(p, error) ==
    /\ pc' = [pc EXCEPT ![p] = "rejected"]
    /\ err' = [err EXCEPT ![p] = error]
    /\ tx' = [tx EXCEPT ![p] = EmptyTx]
    /\ local' = [local EXCEPT ![p] = EmptyLocal]
    /\ Apply(p)

\* An exception leaves create(): the atomic block, if entered, is rolled
\* back and the request ends with the error.
Raise(p, error) ==
    /\ pc' = [pc EXCEPT ![p] = "rejected"]
    /\ err' = [err EXCEPT ![p] = error]
    /\ tx' = [tx EXCEPT ![p] = EmptyTx]
    /\ local' = [local EXCEPT ![p] = EmptyLocal]
    /\ UNCHANGED Tables

\* ------------------------------------------------------------- pricing
\* Order.total_cost: the sum of the costs of the order's lines.
TotalCost(lines) == SumSeq([k \in 1..Len(lines) |-> lines[k].cost])

\* The amount without the tax.
AmountWithoutTax(total) == total * 100

\* amount = round(total_cost * Decimal(repr(TAX_RATE + 1)) * 100, 2), kept
\* in hundredths of a cent (total in cents).
Amount(total) ==
    RoundHalfEven(total * (TAX_RATE.den + TAX_RATE.num),
                  TAX_RATE.den \div 100)

\* int(amount), the test of the charge branches.
IntAmount(amount) == Trunc(amount, 100)

\* int(round(amount)), the cents passed to charge_payment.
ChargeAmount(amount) == RoundHalfEven(amount, 100)

\* tax = (amount * Decimal(repr(TAX_RATE))).quantize(Decimal('0.01')), in
\* cents.
Tax(total) == RoundHalfEven(total * TAX_RATE.num, TAX_RATE.den)

\* An order whose lines cost `total` cents, before create() prices it.
Unpriced(total) ==
    [total |-> total, priced |-> FALSE, tax |-> 0, amount |-> 0,
     int_amount |-> 0, charged |-> 0]

\* What create() computes for an order whose lines cost `total` cents.
Quote(total) ==
    [total |-> total, priced |-> TRUE, tax |-> Tax(total),
     amount |-> Amount(total), int_amount |-> IntAmount(Amount(total)),
     charged |-> ChargeAmount(Amount(total))]

\* -------------------------------------------------------------- coupons
\* validate_coupon_for_order: the first order line of an applicable product
\* type, the usage caps, and the discount, at most the line's cost.
CouponUsesTotal(p, c) ==
    SumOver([u \in Users |-> ViewCouponUses(p, c, u)], Users)

validate_coupon_for_order(p, c, lines) ==
    LET eligible == {k \in 1..Len(lines) : lines[k].content_type \in CouponTypes}
        k == IF eligible = {} THEN 0
             ELSE CHOOSE j \in eligible : \A h \in eligible : j <= h
        discount == IF k = 0 THEN 0
                    ELSE IF Coupons[c].value # 0 THEN Coupons[c].value
                    ELSE (lines[k].cost * Coupons[c].percent_off) \div 100
    IN [valid_use |-> /\ k # 0
                      /\ CouponUsesTotal(p, c) < Coupons[c].max_use
                      /\ ViewCouponUses(p, c, req[p].user)
                            < Coupons[c].max_use_per_user,
        orderline |-> k,
        value |-> IF k # 0 /\ discount > lines[k].cost
                  THEN lines[k].cost ELSE discount]

\* The discount taken off every line the coupon applies to.
ApplyCouponToAll(lines, c, info) ==
    [k \in DOMAIN lines |->
        IF lines[k].content_type \in CouponTypes
        THEN [lines[k] EXCEPT !.cost = @ - info.value,
                              !.coupon = c,
                              !.coupon_real_value = info.value]
        ELSE lines[k]]

\* The coupon's own discount taken off, not the value validated for the
\* order line.
ApplyCouponUnclamped(lines, c, info) ==
    LET off == IF Coupons[c].value # 0 THEN Coupons[c].value
               ELSE (lines[info.orderline].cost * Coupons[c].percent_off)
                        \div 100
    IN [lines EXCEPT ![info.orderline] =
           [@ EXCEPT !.cost = @ - off,
                     !.coupon = c,
                     !.coupon_real_value = off]]

\* The valid coupon is applied to its order line: the line's cost is
\* reduced by coupon_info['value'], and the line records the coupon and the
\* value.
ApplyCoupon(lines, c, info) ==
    [lines EXCEPT ![info.orderline] =
        [@ EXCEPT !.cost = @ - info.value,
                  !.coupon = c,
                  !.coupon_real_value = info.value]]

\* -------------------------------------------------------------- actions
\* An external call of the payment gateway: the operation, the amount charged
\* and whether the gateway accepted it (it raises PaymentAPIError if not).
Call(name, amount, ok) == [call |-> name, amount |-> amount, ok |-> ok]

\* create_external_payment_profile raises PaymentAPIError and create() goes
\* on without a profile.
CreateProfileFailsIgnored(p) ==
    /\ ext' = [ext EXCEPT ![p] = Append(@, Call("create_profile", 0, FALSE))]
    /\ local' = [local EXCEPT ![p] =
                   [EmptyLocal EXCEPT !.user = users[req[p].user]]]
    /\ pc' = [pc EXCEPT ![p] = "order"]
    /\ UNCHANGED <<err, tx, profiles, Tables>>

\* create_external_payment_profile raises PaymentAPIError: create() raises
\* the validation error before the local profile is created.
CreateProfileFails(p) ==
    /\ ext' = [ext EXCEPT ![p] = Append(@, Call("create_profile", 0, FALSE))]
    /\ Raise(p, "payment_api")
    /\ UNCHANGED profiles

\* create(), up to the atomic block: the request's user, the user's payment
\* profile and, with a single_use_token and no profile, the external and
\* the local profile (written outside the transaction).
StartRequest(p) ==
    /\ pc[p] = "idle"
    /\ before' = [before EXCEPT ![p] = Snapshot]
    /\ LET user == req[p].user
           loaded == [EmptyLocal EXCEPT !.user = users[user]]
       IN IF req[p].single_use_token /\ user \notin profiles
          THEN \/ CreateProfileFails(p)
               \/ /\ ext' = [ext EXCEPT ![p] =
                               Append(@, Call("create_profile", 0, TRUE))]
                  /\ profiles' = profiles \cup {user}
                  /\ local' = [local EXCEPT ![p] = loaded]
                  /\ pc' = [pc EXCEPT ![p] = "order"]
                  /\ UNCHANGED <<err, tx, Tables>>
          ELSE /\ local' = [local EXCEPT ![p] = loaded]
               /\ pc' = [pc EXCEPT ![p] = "order"]
               /\ UNCHANGED <<err, tx, ext, profiles, Tables>>
    /\ UNCHANGED <<req, notifications, Outside>>

\* The atomic block opens: the Order and its OrderLines are created, the
\* coupon is validated and applied, the amount is computed.
CreateOrder(p) ==
    /\ pc[p] = "order"
    /\ LET user == req[p].user
           c == req[p].coupon
           lines == req[p].order_lines
           info == validate_coupon_for_order(p, c, lines)
           discounted ==
               IF c = NoCoupon \/ ~info.valid_use THEN lines
               ELSE ApplyCoupon(lines, c, info)
           order == [id |-> p, user |-> user, order_lines |-> discounted,
                     authorization_id |-> "0", settlement_id |-> "0",
                     reference_number |-> "0"]
       IN IF c # NoCoupon /\ ~info.valid_use
          THEN Raise(p, "coupon")
          ELSE /\ tx' = [tx EXCEPT ![p] =
                          [@ EXCEPT !.order = <<order>>,
                                    !.coupon_uses =
                                        IF c = NoCoupon THEN <<>>
                                        ELSE <<ViewCouponUses(p, c, user) + 1>>]]
               /\ local' = [local EXCEPT ![p] =
                              [@ EXCEPT !.amount = Amount(TotalCost(discounted)),
                                        !.waits = IF c = NoCoupon THEN {}
                                                  ELSE CouponUserRowHolders(p)]]
               /\ pc' = [pc EXCEPT ![p] = PhaseAfter("order", lines)]
               /\ UNCHANGED <<err, Tables>>
    /\ UNCHANGED <<req, ext, profiles, notifications, before, Outside>>

\* The membership and package blocks: both change the request's user object
\* and save it.
RECURSIVE TicketsOfPackages(_, _)
TicketsOfPackages(lines, ks) ==
    IF ks = <<>> THEN 0
    ELSE Catalog.package.reservations * lines[Head(ks)].quantity
         + TicketsOfPackages(lines, Tail(ks))

\* user.membership and user.membership_end > timezone.now().date()
ActiveMembership(user) ==
    user.membership # NoMembership /\ user.membership_end > Today

\* user.membership = membership_orderlines[0].content_object and
\* user.membership_end = today + user.membership.duration
Subscribe(user, lines) ==
    [user EXCEPT
        !.membership = lines[Head(IndicesOfType(lines, "membership"))].object_id,
        !.membership_end = Today + Catalog.membership.duration]

Products(p) ==
    /\ pc[p] = "products"
    /\ Ready(p)
    /\ LET lines == tx[p].order[1].order_lines
           user == local[p].user
           member == IF HasType(lines, "membership")
                     THEN Subscribe(user, lines) ELSE user
           saved == [member EXCEPT !.tickets =
                        @ + TicketsOfPackages(lines,
                                              IndicesOfType(lines, "package"))]
       IN IF HasType(lines, "membership") /\ ActiveMembership(user)
          THEN Raise(p, "active_membership")
          ELSE /\ tx' = [tx EXCEPT ![p] = [@ EXCEPT !.user = <<saved>>]]
               /\ local' = [local EXCEPT ![p] =
                              [@ EXCEPT !.user = saved,
                                        !.need_transaction = TRUE,
                                        !.i = 1,
                                        !.waits = UserRowHolders(p)]]
               /\ pc' = [pc EXCEPT ![p] = PhaseAfter("products", lines)]
               /\ UNCHANGED <<err, Tables>>
    /\ UNCHANGED <<req, ext, profiles, notifications, before, Outside>>

\* After order line i of a block: the next line of the block, or the next
\* block.
Advance(p, phase, count, lines) ==
    IF local[p].i < count
    THEN [pc EXCEPT ![p] = phase]
    ELSE [pc EXCEPT ![p] = PhaseAfter(phase, lines)]

NextIndex(p, count) == IF local[p].i < count THEN local[p].i + 1 ELSE 1

\* No test of the user's reservations.
NeverRegistered(active, u) == FALSE

\* reservations.filter(user=user): the user has one of the active
\* reservations of the resource.
AlreadyRegistered(active, u) == \E r \in active : r.user = u

\* The test of the seats without the test of the workplace.
TimeslotAvailableAnywhere(has_workplace, seats_of, reserved) ==
    seats_of - reserved > 0

\* timeslot.period.workplace and
\* timeslot.period.workplace.seats - reserved > 0
TimeslotAvailable(has_workplace, seats_of, reserved) ==
    has_workplace /\ seats_of - reserved > 0

\* TimeSlot.places_remaining: 0 when the period has no workplace, else the
\* seats of the workplace that no active reservation takes.
places_remaining(t) ==
    IF workplace[t]
    THEN Catalog.timeslot.seats
             - Cardinality({r \in reservations :
                               r.timeslot = t /\ r.is_active})
    ELSE 0

\* One pass of the loop over the timeslot order lines.
ReserveTimeslot(p) ==
    /\ pc[p] = "timeslots"
    /\ Ready(p)
    /\ LET lines == tx[p].order[1].order_lines
           ks == IndicesOfType(lines, "timeslot")
           k == ks[local[p].i]
           timeslot == lines[k].object_id
           user == local[p].user
           active == {r \in ViewReservations(p) :
                         r.timeslot = timeslot /\ r.is_active}
           reserved == Cardinality(active)
           debited == [user EXCEPT !.tickets = @ - 1]
       IN IF slots[timeslot].price > user.tickets
          THEN Raise(p, "not_enough_tickets")
          ELSE IF AlreadyRegistered(active, req[p].user)
          THEN Raise(p, "already_registered_timeslot")
          ELSE IF TimeslotAvailable(workplace[timeslot],
                                    Catalog.timeslot.seats, reserved)
          THEN /\ tx' = [tx EXCEPT ![p] =
                          [@ EXCEPT !.reservations =
                                        @ \cup {[rid |-> <<p, k>>,
                                                 user |-> req[p].user,
                                                 timeslot |-> timeslot,
                                                 is_active |-> TRUE,
                                                 cancelation_reason |->
                                                     NoReason,
                                                 cancelation_date |->
                                                     NoDate]},
                                    !.user = <<debited>>]]
               /\ local' = [local EXCEPT ![p] =
                              [@ EXCEPT !.user = debited,
                                        !.i = NextIndex(p, Len(ks)),
                                        !.waits = UserRowHolders(p)]]
               /\ pc' = Advance(p, "timeslots", Len(ks), lines)
               /\ UNCHANGED <<err, Tables>>
          ELSE Raise(p, "no_places_timeslot")
    /\ UNCHANGED <<req, ext, profiles, notifications, before, Outside>>

\* Retirement.total_reservations: the active reservations of the retirement.
total_reservations(p, r) ==
    Cardinality({x \in ViewRetirementReservations(p) :
                    x.retirement = r /\ x.is_active})

\* Admission whatever the seats.
PlaceAvailableAlways(seats_of, reserved, held, notified) == TRUE

\* Admission by the seats held back alone, notified or not.
PlaceAvailableUnnotified(seats_of, reserved, held, notified) ==
    seats_of - reserved - held > 0 \/ held # 0

\* (seats - total_reservations - reserved_seats) > 0, or reserved_seats and
\* a WaitQueueNotification of the user for the retirement.
PlaceAvailable(seats_of, reserved, held, notified) ==
    seats_of - reserved - held > 0 \/ (held # 0 /\ notified)

\* One pass of the loop over the retirement order lines; the first pass
\* starts with the check of the user's profile.
ReserveRetirement(p) ==
    /\ pc[p] = "retirements"
    /\ Ready(p)
    /\ LET lines == tx[p].order[1].order_lines
           ks == IndicesOfType(lines, "retirement")
           k == ks[local[p].i]
           r == lines[k].object_id
           u == req[p].user
           seats_held == ViewReservedSeats(p, r)
           active == {x \in ViewRetirementReservations(p) :
                         x.retirement = r /\ x.is_active}
           user_waiting == <<u, r>> \in ViewWaitQueue(p)
       IN IF local[p].i = 1 /\ ~local[p].user.complete
          THEN Raise(p, "incomplete_profile")
          ELSE IF AlreadyRegistered(active, u)
          THEN Raise(p, "already_registered_retirement")
          ELSE IF PlaceAvailable(seats[r],
                                 total_reservations(p, r), seats_held,
                                 <<u, r>> \in notifications)
          THEN /\ tx' = [tx EXCEPT ![p] =
                          [@ EXCEPT !.retirement_reservations =
                                        @ \cup {[rid |-> <<p, k>>,
                                                 user |-> u,
                                                 retirement |-> r,
                                                 is_active |-> TRUE]},
                                    !.reserved_seats =
                                        IF seats_held # 0
                                        THEN [x \in DOMAIN @ \cup {r} |->
                                                 IF x = r THEN seats_held - 1
                                                 ELSE @[x]]
                                        ELSE @,
                                    !.wait_queue_deleted =
                                        IF user_waiting
                                        THEN @ \cup {<<u, r>>} ELSE @]]
               /\ local' = [local EXCEPT ![p] =
                              [@ EXCEPT !.need_transaction = TRUE,
                                        !.i = NextIndex(p, Len(ks)),
                                        !.waits =
                                            IF seats_held # 0
                                            THEN RetirementRowHolders(p, r)
                                            ELSE {}]]
               /\ pc' = Advance(p, "retirements", Len(ks), lines)
               /\ UNCHANGED <<err, Tables>>
          ELSE Raise(p, "no_places_retirement")
    /\ UNCHANGED <<req, ext, profiles, notifications, before, Outside>>

\* The external calls of the two charging branches.  With a payment_token
\* the stored card is charged; with a single_use_token the card is first
\* added to the external profile, and charged if that succeeded.
\* A charge that is attempted again after a failure.
TokenCallsRetry(amount, charged) ==
    <<Call("charge_payment", amount, FALSE),
      Call("charge_payment", amount, charged)>>

TokenCalls(amount, charged) == <<Call("charge_payment", amount, charged)>>
CardCalls(amount, card_created, charged) ==
    IF card_created
    THEN <<Call("create_card", 0, TRUE), Call("charge_payment", amount, charged)>>
    ELSE <<Call("create_card", 0, FALSE)>>

\* The chain without its tests of int(amount).
ChargeBranchAnyAmount(need_transaction, payment_token, single_use_token, amount, lines) ==
    IF need_transaction /\ payment_token THEN "payment_token"
    ELSE IF need_transaction /\ single_use_token THEN "single_use_token"
    ELSE IF \/ HasType(lines, "membership")
            \/ HasType(lines, "package")
            \/ HasType(lines, "retirement")
    THEN "payment_required"
    ELSE "none"

\* The chain without its last branch: an order that needs a payment and
\* has no token goes on.
ChargeBranchNoRequirement(need_transaction, payment_token, single_use_token, amount, lines) ==
    IF need_transaction /\ payment_token /\ IntAmount(amount) # 0
    THEN "payment_token"
    ELSE IF need_transaction /\ single_use_token /\ IntAmount(amount) # 0
    THEN "single_use_token"
    ELSE "none"

\* The branch of the if / elif / elif chain that runs.
ChargeBranch(need_transaction, payment_token, single_use_token, amount, lines) ==
    IF need_transaction /\ payment_token /\ IntAmount(amount) # 0
    THEN "payment_token"
    ELSE IF need_transaction /\ single_use_token /\ IntAmount(amount) # 0
    THEN "single_use_token"
    ELSE IF /\ \/ HasType(lines, "membership")
               \/ HasType(lines, "package")
               \/ HasType(lines, "retirement")
            /\ IntAmount(amount) # 0
    THEN "payment_required"
    ELSE "none"

\* The gateway's identifiers are not saved on the order.
SettledNotSaved(order, need_transaction, charged) == order

\* The order as saved at the end of the atomic block.
Settled(order, need_transaction, charged) ==
    IF ~need_transaction THEN order
    ELSE IF charged
    THEN [order EXCEPT !.authorization_id = "authorization",
                       !.settlement_id = "settlement",
                       !.reference_number = "merchantRefNum"]
    ELSE [order EXCEPT !.authorization_id = "0",
                       !.settlement_id = "0",
                       !.reference_number = "charge-uuid"]

ChargeSucceeds(p, calls) ==
    /\ ext' = [ext EXCEPT ![p] = @ \o calls]
    /\ tx' = [tx EXCEPT ![p] =
                [@ EXCEPT !.order =
                    <<Settled(@[1], local[p].need_transaction, TRUE)>>]]
    /\ local' = [local EXCEPT ![p] = [@ EXCEPT !.charge_response = TRUE]]
    /\ pc' = [pc EXCEPT ![p] =
                PhaseAfter("charge", tx[p].order[1].order_lines)]
    /\ UNCHANGED <<err, Tables>>

ChargeFails(p, calls) ==
    /\ ext' = [ext EXCEPT ![p] = @ \o calls]
    /\ Raise(p, "payment_api")

\* The charge of the order and the saving of the gateway's identifiers.
Charge(p) ==
    /\ pc[p] = "charge"
    /\ Ready(p)
    /\ LET lines == tx[p].order[1].order_lines
           amount == local[p].amount
           branch == ChargeBranch(local[p].need_transaction,
                                  req[p].payment_token,
                                  req[p].single_use_token, amount, lines)
       IN CASE branch = "payment_token" ->
                  \/ ChargeSucceeds(p, TokenCalls(ChargeAmount(amount), TRUE))
                  \/ ChargeFails(p, TokenCalls(ChargeAmount(amount), FALSE))
            [] branch = "single_use_token" ->
                  \/ ChargeSucceeds(p, CardCalls(ChargeAmount(amount),
                                                 TRUE, TRUE))
                  \/ ChargeFails(p, CardCalls(ChargeAmount(amount),
                                              TRUE, FALSE))
                  \/ ChargeFails(p, CardCalls(ChargeAmount(amount),
                                              FALSE, FALSE))
            [] branch = "payment_required" ->
                  /\ Raise(p, "payment_required")
                  /\ UNCHANGED ext
            [] OTHER ->
                  /\ tx' = [tx EXCEPT ![p] =
                              [@ EXCEPT !.order =
                                  <<Settled(@[1], local[p].need_transaction,
                                            FALSE)>>]]
                  /\ pc' = [pc EXCEPT ![p] = PhaseAfter("charge", lines)]
                  /\ UNCHANGED <<err, local, ext, Tables>>
    /\ UNCHANGED <<req, profiles, notifications, before, Outside>>

\* The atomic block ends without an exception: its writes are committed.
Commit(p) ==
    /\ pc[p] = "commit"
    /\ Ready(p)
    /\ Apply(p)
    /\ tx' = [tx EXCEPT ![p] = EmptyTx]
    /\ pc' = [pc EXCEPT ![p] =
                IF local[p].need_transaction THEN "email" ELSE "done"]
    /\ local' = [local EXCEPT ![p] =
                   IF local[p].need_transaction THEN @ ELSE EmptyLocal]
    /\ UNCHANGED <<req, err, ext, profiles, notifications, before, Outside>>

\* The failure of send_mail takes back what the order committed.
EmailFailsUnwinds(p) ==
    /\ err' = [err EXCEPT ![p] = "email"]
    /\ users' = before[p].users
    /\ orders' = before[p].orders
    /\ reservations' = before[p].reservations
    /\ retirement_reservations' = before[p].retirement_reservations
    /\ reserved_seats' = before[p].reserved_seats
    /\ wait_queue' = before[p].wait_queue
    /\ coupon_uses' = before[p].coupon_uses

\* render_to_string or send_mail raises: the exception leaves create()
\* after the atomic block has committed.
EmailFails(p) ==
    /\ err' = [err EXCEPT ![p] = "email"]
    /\ UNCHANGED Tables

\* The confirmation emails, sent after the atomic block; create() returns
\* the order, or the exception of a failed email leaves it.  Either way the
\* call is over ("done").
SendEmails(p) ==
    /\ pc[p] = "email"
    /\ pc' = [pc EXCEPT ![p] = "done"]
    /\ local' = [local EXCEPT ![p] = EmptyLocal]
    /\ \/ UNCHANGED <<err, Tables>>
       \/ EmailFails(p)
    /\ UNCHANGED <<req, tx, ext, profiles, notifications, before,
                   Outside>>

\* The state of the order creations.
OrderState ==
    <<req, pc, err, local, tx, ext, profiles, notifications, before, Tables,
      workplace, seats, order_update, PaymentAdmin>>

\* create() computes the tax and the amounts of the order.
PriceOrder ==
    /\ ~quote.priced
    /\ quote' = Quote(quote.total)
    /\ UNCHANGED <<OrderState, CouponAdmin, line_check, TimeslotAdmin>>

\* --------------------------------------------- validation of an order line
\* The users and the products an order line is validated for: the user's
\* membership and academic level, the memberships a package or retirement
\* is exclusive to, the academic levels a membership is open to.
AcademicLevels == {"none", "a0", "a1"}
LineUsers ==
    [is_staff : BOOLEAN, membership : Memberships,
     academic_level : AcademicLevels]
LineProducts ==
    [exists : BOOLEAN,
     exclusive_memberships : SUBSET (Memberships \ {NoMembership}),
     academic_levels : SUBSET (AcademicLevels \ {"none"})]

\* The two eligibility rules applied to staff as to everyone.
validateLineStaffToo(user, content_type, obj) ==
    IF ~obj.exists THEN "does_not_exist"
    ELSE IF /\ content_type \in {"package", "retirement"}
            /\ obj.exclusive_memberships # {}
            /\ user.membership \notin obj.exclusive_memberships
    THEN "membership_required"
    ELSE IF /\ content_type = "membership"
            /\ obj.academic_levels # {}
            /\ user.academic_level \notin obj.academic_levels
    THEN "academic_level_required"
    ELSE "valid"

\* OrderLineSerializer.validate: the error it raises, or "valid".
validateLine(user, content_type, obj) ==
    IF ~obj.exists THEN "does_not_exist"
    ELSE IF /\ ~user.is_staff
            /\ content_type \in {"package", "retirement"}
            /\ obj.exclusive_memberships # {}
            /\ user.membership \notin obj.exclusive_memberships
    THEN "membership_required"
    ELSE IF /\ ~user.is_staff
            /\ content_type = "membership"
            /\ obj.academic_levels # {}
            /\ user.academic_level \notin obj.academic_levels
    THEN "academic_level_required"
    ELSE "valid"

NoLineCheck ==
    [user |-> [is_staff |-> FALSE, membership |-> NoMembership,
               academic_level |-> "none"],
     content_type |-> "timeslot",
     obj |-> [exists |-> TRUE, exclusive_memberships |-> {},
              academic_levels |-> {}],
     result |-> ""]

\* The serializer validates the order line.
ValidateOrderLine ==
    /\ line_check.result = ""
    /\ line_check' =
           [line_check EXCEPT
               !.result = validateLine(line_check.user, line_check.content_type,
                                       line_check.obj)]
    /\ UNCHANGED <<OrderState, CouponAdmin, quote, TimeslotAdmin>>

\* ------------------------------------------------ coupon administration
\* CouponSerializer.  A request carries validated_data: a field the client
\* left out is None (validated_data.get(field, None)); the fields are not
\* nullable, so a field that is present is a number.
None == -1
NoCode == ""
Codes == {"A", "B", "C"}
Values == {0, 500}
Percents == {0, 10}
CouponData ==
    [code : Codes \cup {NoCode}, value : Values \cup {None},
     percent_off : Percents \cup {None}]

\* The draws of create(): n < 100 is the test of the loop.
MaxAttempts == 100

\* The loop of create() that was not entered.
NoDraws == [n |-> 0, fresh |-> TRUE]

NoResponse ==
    [action |-> "", id |-> 0, status |-> "",
     data |-> [code |-> NoCode, value |-> None, percent_off |-> None],
     draws |-> NoDraws]

\* Python's truth value of a field: None and 0 are false.
Truthy(x) == x # None /\ x # 0

UsedCodes == {stored_coupons[i].code : i \in DOMAIN stored_coupons}

\* validate without its second test.
validateAtMostOne(attr, action) ==
    IF Truthy(attr.value) /\ Truthy(attr.percent_off) THEN "both" ELSE "ok"

\* CouponSerializer.validate.
validate(attr, action) ==
    IF Truthy(attr.value) /\ Truthy(attr.percent_off) THEN "both"
    ELSE IF /\ action # "partial_update"
            /\ ~Truthy(attr.value) /\ ~Truthy(attr.percent_off)
    THEN "neither"
    ELSE "ok"

\* The two tests of CouponSerializer.update on the stored coupon and the
\* new fields.
updateCheck(instance, validated_data) ==
    LET new_value == validated_data.value
        new_percent_off == validated_data.percent_off
        value_off ==
            \/ ~Truthy(instance.value) /\ Truthy(new_value)
            \/ Truthy(instance.value) /\ new_value # 0
        percent_off ==
            \/ ~Truthy(instance.percent_off) /\ Truthy(new_percent_off)
            \/ Truthy(instance.percent_off) /\ new_percent_off # 0
    IN IF value_off /\ percent_off THEN "both"
       ELSE IF ~value_off /\ ~percent_off THEN "neither"
       ELSE "ok"

\* ModelSerializer.update: the fields of the request replace the stored
\* ones.
Updated(instance, validated_data) ==
    [code |-> instance.code,
     value |-> IF validated_data.value # None
               THEN validated_data.value ELSE instance.value,
     percent_off |-> IF validated_data.percent_off # None
                     THEN validated_data.percent_off ELSE instance.percent_off]

RespondAfter(action, id, data, status, draws) ==
    coupon_response' =
        [action |-> action, id |-> id, status |-> status, data |-> data,
         draws |-> draws]

Respond(action, id, data, status) ==
    RespondAfter(action, id, data, status, NoDraws)

\* The loop of create() when its first `collisions` draws are codes in use:
\* the number n of draws it made and whether the last one is a code that is
\* not in use.
Draw(collisions) ==
    [n |-> IF collisions < MaxAttempts THEN collisions + 1 ELSE MaxAttempts,
     fresh |-> collisions < MaxAttempts]

\* A loop that draws a code whether or not the request gives one.
DrawsAlways(code, used_code) == {Draw(0)}

\* What the loop can do for the code of the request: nothing when a code
\* is given (the uniqueness validator has refused a code in use); else it
\* draws until a draw is not in use, and a draw can only be in use when
\* there are coupons.
Draws(code, used_code) ==
    IF code # NoCode THEN {NoDraws}
    ELSE {Draw(k) : k \in IF used_code = {} THEN {0}
                          ELSE {0, MaxAttempts - 2, MaxAttempts - 1,
                                MaxAttempts}}

\* POST: the code's uniqueness, validate, then create, which draws a code
\* when none is given: up to 100 draws, and the error when the 100th was
\* made.
CouponCreate ==
    /\ Len(stored_coupons) < MaxCoupons
    /\ \E data \in CouponData :
          LET id == Len(stored_coupons) + 1
              checked == validate(data, "create")
          IN IF data.code \in UsedCodes
             THEN Respond("create", id, data, "unique") /\ UNCHANGED stored_coupons
             ELSE IF checked # "ok"
             THEN Respond("create", id, data, checked) /\ UNCHANGED stored_coupons
             ELSE \E draws \in Draws(data.code, UsedCodes) :
                      IF draws.n >= MaxAttempts
                      THEN /\ RespondAfter("create", id, data, "no_code", draws)
                           /\ UNCHANGED stored_coupons
                      ELSE \E code \in Codes \ UsedCodes :
                              /\ data.code \in {code, NoCode}
                              /\ stored_coupons' =
                                     Append(stored_coupons,
                                            [data EXCEPT !.code = code])
                              /\ RespondAfter("create", id, data, "ok", draws)
    /\ UNCHANGED <<OrderState, quote, line_check, TimeslotAdmin>>

\* PUT and PATCH: validate for the action, then update.
Change(action) ==
    /\ \E id \in DOMAIN stored_coupons, data \in CouponData :
          LET instance == stored_coupons[id]
              checked == validate(data, action)
              tested == updateCheck(instance, data)
          IN /\ data.code = NoCode
             /\ IF checked # "ok"
                THEN Respond(action, id, data, checked) /\ UNCHANGED stored_coupons
                ELSE IF tested # "ok"
                THEN Respond(action, id, data, tested) /\ UNCHANGED stored_coupons
                ELSE /\ stored_coupons' =
                            [stored_coupons EXCEPT ![id] =
                                Updated(instance, data)]
                     /\ Respond(action, id, data, "ok")
    /\ UNCHANGED <<OrderState, quote, line_check, TimeslotAdmin>>

CouponUpdate == Change("update")
CouponPartialUpdate == Change("partial_update")

\* ------------------------------------------ administration of timeslots
\* The fields of a PUT or PATCH of a timeslot by an admin: a field that is
\* not sent is None.
StartTimes == {8, 10}
EndTimes == {12, 14}
Prices == {3, 10}
TimeslotData ==
    [start_time : StartTimes \cup {None}, end_time : EndTimes \cup {None},
     price : Prices \cup {None}, force_update : BOOLEAN]

\* The timeslot of the tests before any update.
DefaultSlot ==
    [start_time |-> 8, end_time |-> 12, price |-> 3, is_active |-> TRUE]

\* The timeslot the orders are for: its price is the one of the catalog.
CatalogSlot == [DefaultSlot EXCEPT !.price = Catalog.timeslot.price]

\* The force_delete field of a DELETE: not sent, a boolean, or a value that
\* is not a boolean.
ForceDeletes == {"absent", "true", "false", "invalid"}

NoUpdate ==
    [timeslot |-> "", status |-> "", emails |-> 0, force_delete |-> "absent",
     data |-> [start_time |-> None, end_time |-> None, price |-> None,
               force_update |-> FALSE],
     prior |-> [reservations |-> {}, users |-> [u \in Users |-> DefaultUser],
                slot |-> DefaultSlot]]

\* The request changes the start_time or the end_time of the timeslot.
TimesChange(slot, data) ==
    \/ data.start_time # None /\ data.start_time # slot.start_time
    \/ data.end_time # None /\ data.end_time # slot.end_time

\* An update that is never refused.
UpdateRefusedNever(slot, data, active) == FALSE

\* The update affects users and has no force_update.
UpdateRefused(slot, data, active) ==
    TimesChange(slot, data) /\ active # {} /\ ~data.force_update

\* The fields of the request replace those of the timeslot.
UpdatedSlot(slot, data) ==
    [start_time |-> IF data.start_time # None
                    THEN data.start_time ELSE slot.start_time,
     end_time |-> IF data.end_time # None
                  THEN data.end_time ELSE slot.end_time,
     price |-> IF data.price # None THEN data.price ELSE slot.price,
     is_active |-> slot.is_active]

\* A reservation cancelled because its timeslot was modified.
Cancelled(r) ==
    [r EXCEPT !.is_active = FALSE, !.cancelation_reason = "TM",
              !.cancelation_date = Today]

\* A user who gets no ticket back.
RefundNothing(user, count) == user

\* The user gets a ticket back for each reservation that was cancelled.
Refund(user, count) == [user EXCEPT !.tickets = @ + count]

\* PUT or PATCH of a timeslot by an admin.  A change of start_time or
\* end_time while the timeslot has active reservations needs force_update;
\* it then cancels every active reservation of the timeslot, gives each
\* ticket back and sends one email per cancelled reservation, and the
\* update stands when the emails cannot be sent.
UpdateTimeslot ==
    /\ \E t \in Timeslots, data \in TimeslotData, sent \in BOOLEAN :
          LET slot == slots[t]
              active == {r \in reservations : r.timeslot = t /\ r.is_active}
              Of(u) == Cardinality({r \in active : r.user = u})
              prior == [reservations |-> reservations, users |-> users,
                        slot |-> slot]
              Answer(status, emails) ==
                  update_response' =
                      [timeslot |-> t, status |-> status, emails |-> emails,
                       force_delete |-> "absent", data |-> data,
                       prior |-> prior]
          IN /\ slot.is_active
             /\ IF UpdateRefused(slot, data, active)
                THEN /\ Answer("force_update_required", 0)
                     /\ UNCHANGED <<slots, reservations, users>>
                ELSE IF TimesChange(slot, data) /\ active # {}
                THEN /\ slots' =
                            [slots EXCEPT ![t] = UpdatedSlot(slot, data)]
                     /\ reservations' =
                            (reservations \ active)
                                \cup {Cancelled(r) : r \in active}
                     /\ users' = [u \in Users |-> Refund(users[u], Of(u))]
                     /\ Answer("ok",
                               IF sent THEN Cardinality(active) ELSE 0)
                ELSE /\ sent
                     /\ slots' =
                            [slots EXCEPT ![t] = UpdatedSlot(slot, data)]
                     /\ Answer("ok", 0)
                     /\ UNCHANGED <<reservations, users>>
    /\ UNCHANGED <<req, pc, err, local, tx, ext, profiles, notifications,
                   before, orders, retirement_reservations, reserved_seats,
                   wait_queue, coupon_uses, CouponAdmin, quote, workplace,
                   line_check, seats, order_update, PaymentAdmin>>

\* A reservation cancelled because its timeslot was deleted.
Deleted(r) ==
    [r EXCEPT !.is_active = FALSE, !.cancelation_reason = "TD",
              !.cancelation_date = Today]

\* A deletion refused only when force_delete is not sent.
DeleteRefusedIfAbsent(force_delete, active) == active # {} /\ force_delete = "absent"

\* The deletion affects users and force_delete is not true.
DeleteRefused(force_delete, active) == active # {} /\ force_delete # "true"

\* DELETE of a timeslot by an admin.  force_delete must be a boolean; with
\* active reservations it must be true, and the deletion then cancels every
\* active reservation of the timeslot, gives each ticket back and sends one
\* email per cancelled reservation.  The cancelled reservations remain, so
\* the timeslot is kept and made inactive.
DeleteTimeslot ==
    /\ \E t \in Timeslots, force_delete \in ForceDeletes, sent \in BOOLEAN :
          LET slot == slots[t]
              active == {r \in reservations : r.timeslot = t /\ r.is_active}
              Of(u) == Cardinality({r \in active : r.user = u})
              prior == [reservations |-> reservations, users |-> users,
                        slot |-> slot]
              Answer(status, emails) ==
                  update_response' =
                      [timeslot |-> t, status |-> status, emails |-> emails,
                       force_delete |-> force_delete, data |-> NoUpdate.data,
                       prior |-> prior]
          IN /\ slot.is_active
             /\ IF force_delete = "invalid"
                THEN /\ Answer("invalid_boolean", 0)
                     /\ UNCHANGED <<slots, reservations, users>>
                ELSE IF DeleteRefused(force_delete, active)
                THEN /\ Answer("force_delete_required", 0)
                     /\ UNCHANGED <<slots, reservations, users>>
                ELSE /\ active = {} => sent
                     /\ slots' = [slots EXCEPT ![t].is_active = FALSE]
                     /\ reservations' =
                            (reservations \ active)
                                \cup {Deleted(r) : r \in active}
                     /\ users' = [u \in Users |-> Refund(users[u], Of(u))]
                     /\ Answer("deleted",
                               IF sent THEN Cardinality(active) ELSE 0)
    /\ UNCHANGED <<req, pc, err, local, tx, ext, profiles, notifications,
                   before, orders, retirement_reservations, reserved_seats,
                   wait_queue, coupon_uses, CouponAdmin, quote, workplace,
                   line_check, seats, order_update, PaymentAdmin>>

\* ------------------------------------------------------ update of an order
\* No order was updated yet.
NoOrderUpdate == [status |-> "none", order |-> "", data |-> <<>>, applied |-> 0]

\* The order lines that the lookup of update_or_create finds: the lines of
\* the order with the content type and the object of the data.
Matching(lines, data) ==
    {k \in DOMAIN lines :
        /\ lines[k].content_type = data.content_type
        /\ lines[k].object_id = data.object_id}

\* OrderLine.objects.update_or_create when at most one line matches: the
\* matching line takes the fields of the data (a timeslot line has no cost
\* in its data), and a line is created when none matches.
update_or_create(lines, data) ==
    IF Matching(lines, data) = {} THEN Append(lines, data)
    ELSE [k \in DOMAIN lines |->
             IF k \in Matching(lines, data)
             THEN [lines[k] EXCEPT
                      !.quantity = data.quantity,
                      !.cost = IF data.content_type = "timeslot" THEN @
                               ELSE data.cost]
             ELSE lines[k]]

\* The loop of update(): update_or_create for each line of the request in
\* turn; its lookup raises MultipleObjectsReturned when several lines of
\* the order match, and the lines written before stay written.
RECURSIVE UpdateLines(_, _)
UpdateLines(lines, data) ==
    IF data = <<>> THEN [lines |-> lines, status |-> "updated"]
    ELSE IF Cardinality(Matching(lines, Head(data))) > 1
    THEN [lines |-> lines, status |-> "multiple_objects"]
    ELSE UpdateLines(update_or_create(lines, Head(data)), Tail(data))

\* OrderSerializer.update of a stored order with the order lines of a
\* request; the same request can be sent a second time.
UpdateOrder ==
    /\ order_update.applied < 2
    /\ \E o \in orders, data \in Carts :
          /\ order_update.applied = 1 =>
                 o.id = order_update.order /\ data = order_update.data
          /\ LET result == UpdateLines(o.order_lines, data)
             IN /\ orders' = (orders \ {o})
                                 \cup {[o EXCEPT !.order_lines = result.lines]}
                /\ order_update' =
                       [status |-> result.status, order |-> o.id,
                        data |-> data, applied |-> order_update.applied + 1]
    /\ UNCHANGED <<req, pc, err, local, tx, ext, users, profiles,
                   reservations, retirement_reservations, reserved_seats,
                   wait_queue, notifications, coupon_uses, before,
                   CouponAdmin, quote, workplace, line_check, TimeslotAdmin,
                   seats, PaymentAdmin>>

\* ---------------------------------------------------------- custom payment
\* A custom payment of a price that was not asked for yet.
Unpaid(price) ==
    [status |-> "none", price |-> price, calls |-> <<>>,
     charge_response |-> <<>>, email |-> ""]

\* What the gateway answers to a charge: the id of the authorization, the
\* id of its first settlement and the reference number.
ChargeResponses ==
    [id : {"a1", "a2"}, settlement : {"s1", "s2"}, merchantRefNum : {"ref"}]

\* The charge with the tax of the orders.
CustomAmountTaxed(price) ==
    RoundHalfEven(price * 100 * (TAX_RATE.den + TAX_RATE.num),
                  1000 * TAX_RATE.den)

\* int(round(custom_payment.price*100)), of a price in thousandths.
CustomAmount(price) == RoundHalfEven(price * 100, 1000)

\* CustomPaymentSerializer.create: the row is created with temporary ids
\* inside the atomic block and the gateway is asked for the charge; the row
\* takes the ids of the answer, or PaymentAPIError becomes a validation
\* error that undoes the block.  The confirmation email is sent after the
\* block, and send_mail can raise.
CustomPaymentCreate ==
    /\ payment_response.status = "none"
    /\ LET price == payment_response.price
           row == [id |-> Cardinality(custom_payments) + 1, price |-> price,
                   authorization_id |-> "0", settlement_id |-> "0",
                   reference_number |-> ""]
       IN \/ \E res \in ChargeResponses, email \in {"sent", "failed"} :
                /\ custom_payments' =
                       custom_payments
                       \cup {[row EXCEPT
                                 !.authorization_id = res.id,
                                 !.settlement_id = res.settlement,
                                 !.reference_number = res.merchantRefNum]}
                /\ payment_response' =
                       [payment_response EXCEPT
                           !.status = "created",
                           !.calls = <<Call("charge_payment",
                                            CustomAmount(price), TRUE)>>,
                           !.charge_response = res,
                           !.email = email]
          \/ /\ custom_payments' = custom_payments
             /\ payment_response' =
                    [payment_response EXCEPT
                        !.status = "rejected",
                        !.calls = <<Call("charge_payment",
                                         CustomAmount(price), FALSE)>>]
    /\ UNCHANGED <<req, pc, err, local, tx, ext, profiles, notifications,
                   before, Tables, workplace, seats, order_update,
                   CouponAdmin, quote, line_check, TimeslotAdmin>>

\* ------------------------------------------------------- initial states
\* A row that exists before the requests start.
ReservationRow(u, t) ==
    [rid |-> <<u, 0>>, user |-> u, timeslot |-> t, is_active |-> TRUE,
     cancelation_reason |-> NoReason, cancelation_date |-> NoDate]
RetirementReservationRow(u, r) ==
    [rid |-> <<u, 0>>, user |-> u, retirement |-> r, is_active |-> TRUE]

\* The database before the requests of `active` start, for the requests rq:
\* every table a request reads holds any content the program can have left
\* there (no user booked twice, no resource over its seats, no coupon over
\* its caps); the tables no request reads are empty, and so is the table
\* of payment profiles for the users who present no single_use_token.
InitDatabaseOf(active, rq, places) ==
    LET Touch(type) == \E p \in active : HasType(rq[p].order_lines, type)
        Orders(u, type) ==
            \E p \in active :
                rq[p].user = u /\ HasType(rq[p].order_lines, type)
        codes == {rq[p].coupon : p \in active} \ {NoCoupon}
        UserRow(u) ==
            {[tickets |-> t, membership |-> m[1], membership_end |-> m[2],
              complete |-> c] :
                 t \in IF Orders(u, "timeslot") \/ Orders(u, "package")
                       THEN 0..MaxTickets ELSE {0},
                 m \in IF Orders(u, "membership")
                       THEN {<<NoMembership, Today>>, <<"m0", Today>>,
                             <<"m0", Today + 1>>}
                       ELSE {<<NoMembership, Today>>},
                 c \in IF Orders(u, "retirement") THEN BOOLEAN ELSE {TRUE}}
        booked == IF Touch("timeslot") THEN SUBSET Users ELSE {{}}
        retired == IF Touch("retirement") THEN SUBSET Users ELSE {{}}
        held == IF Touch("retirement") THEN 0..MaxReservedSeats ELSE {0}
        waiting == SUBSET {u \in Users : Orders(u, "retirement")}
        tokens == {p \in active : rq[p].single_use_token}
    IN /\ users \in [Users -> UNION {UserRow(u) : u \in Users}]
       /\ \A u \in Users : users[u] \in UserRow(u)
       /\ profiles \in SUBSET {rq[p].user : p \in tokens}
       /\ orders = {}
       /\ seats = places
       /\ \E b \in [Timeslots -> booked] :
             /\ \A t \in Timeslots : Cardinality(b[t]) <= Catalog.timeslot.seats
             /\ reservations =
                    UNION {{ReservationRow(u, t) : u \in b[t]} :
                              t \in Timeslots}
       /\ \E b \in [Retirements -> retired] :
             /\ reserved_seats \in [Retirements -> held]
             /\ \A r \in Retirements :
                    Cardinality(b[r]) + reserved_seats[r] <= places[r]
             /\ retirement_reservations =
                    UNION {{RetirementReservationRow(u, r) : u \in b[r]} :
                              r \in Retirements}
       /\ \E w \in waiting : wait_queue = w \X Retirements
       /\ \E w \in waiting : notifications = w \X Retirements
       /\ coupon_uses \in [CouponCodes -> [Users -> 0..1]]
       /\ \A c \in CouponCodes :
             /\ c \notin codes => \A u \in Users : coupon_uses[c][u] = 0
             /\ SumOver(coupon_uses[c], Users) <= Coupons[c].max_use
             /\ \A u \in Users :
                    coupon_uses[c][u] <= Coupons[c].max_use_per_user

\* The database when every retirement has the seats of the catalog.
InitDatabase(active, rq) ==
    InitDatabaseOf(active, rq,
                   [r \in Retirements |-> Catalog.retirement.seats])

IdleRequest ==
    [user |-> "u1", order_lines |-> <<ValidateLine("timeslot", "t1", 1)>>,
     payment_token |-> FALSE, single_use_token |-> FALSE, coupon |-> NoCoupon]

InitRequests(active, rq) ==
    /\ req = rq
    /\ pc = [p \in Procs |-> IF p \in active THEN "idle" ELSE "off"]
    /\ err = [p \in Procs |-> ""]
    /\ local = [p \in Procs |-> EmptyLocal]
    /\ tx = [p \in Procs |-> EmptyTx]
    /\ ext = [p \in Procs |-> <<>>]
    /\ before = [p \in Procs |-> Snapshot]
    /\ stored_coupons = <<>>
    /\ coupon_response = NoResponse
    /\ order_update = NoOrderUpdate
    /\ custom_payments = {}

\* One request at a time: request p1, by user u1 with any cart, against any
\* database (u2 stands for every other user).
Init ==
    \E r \in Requests :
        LET rq == [p \in Procs |-> IF p = "p1" THEN r ELSE IdleRequest]
        IN /\ r.user = "u1"
           /\ InitDatabase({"p1"}, rq)
           /\ InitRequests({"p1"}, rq)
           /\ quote = Unpriced(0)
           /\ workplace = [t \in Timeslots |-> TRUE]
           /\ line_check = NoLineCheck
           /\ slots = [t \in Timeslots |-> CatalogSlot]
           /\ update_response = NoUpdate
           /\ payment_response = Unpaid(0)

Step(p) ==
    \/ StartRequest(p)
    \/ CreateOrder(p)
    \/ Products(p)
    \/ ReserveTimeslot(p)
    \/ ReserveRetirement(p)
    \/ Charge(p)
    \/ Commit(p)
    \/ SendEmails(p)

Next == \E p \in Procs : Step(p)

Spec == Init /\ [][Next]_vars

\* Two requests at once, by the same user or by two users, each for one
\* package, timeslot or retirement, paid with a stored card.
ConcurrentRequests ==
    [user : Users,
     order_lines : [1..1 -> {l \in LineItems : l.content_type # "membership"}],
     payment_token : {TRUE}, single_use_token : {FALSE},
     coupon : {NoCoupon, "c10"}]

InitConcurrent ==
    \E rq \in [Procs -> ConcurrentRequests] :
        /\ rq["p1"].user = "u1"
        /\ InitDatabase(Procs, rq)
        /\ InitRequests(Procs, rq)
        /\ quote = Unpriced(0)
        /\ workplace = [t \in Timeslots |-> TRUE]
        /\ line_check = NoLineCheck
        /\ slots = [t \in Timeslots |-> CatalogSlot]
        /\ update_response = NoUpdate
        /\ payment_response = Unpaid(0)

SpecConcurrent == InitConcurrent /\ [][Next]_vars

\* One request at a time, without coupon, when the period of no timeslot
\* has a workplace.
InitNoWorkplace ==
    \E r \in Requests :
        LET rq == [p \in Procs |-> IF p = "p1" THEN r ELSE IdleRequest]
        IN /\ r.user = "u1"
           /\ r.coupon = NoCoupon
           /\ InitDatabase({"p1"}, rq)
           /\ InitRequests({"p1"}, rq)
           /\ quote = Unpriced(0)
           /\ workplace = [t \in Timeslots |-> FALSE]
           /\ line_check = NoLineCheck
           /\ slots = [t \in Timeslots |-> CatalogSlot]
           /\ update_response = NoUpdate
           /\ payment_response = Unpaid(0)

SpecNoWorkplace == InitNoWorkplace /\ [][Next]_vars

\* One request at a time, without coupon, for a timeslot of any price.
InitPrice ==
    \E r \in Requests, price \in 0..MaxPrice :
        LET rq == [p \in Procs |-> IF p = "p1" THEN r ELSE IdleRequest]
        IN /\ r.user = "u1"
           /\ r.coupon = NoCoupon
           /\ InitDatabase({"p1"}, rq)
           /\ InitRequests({"p1"}, rq)
           /\ quote = Unpriced(0)
           /\ workplace = [t \in Timeslots |-> TRUE]
           /\ line_check = NoLineCheck
           /\ slots = [t \in Timeslots |-> [DefaultSlot EXCEPT !.price = price]]
           /\ update_response = NoUpdate
           /\ payment_response = Unpaid(0)

SpecPrice == InitPrice /\ [][Next]_vars

\* One request at a time, without coupon and paid with a stored card, for a
\* retirement of any number of seats.
InitSeats ==
    \E r \in Requests, places \in [Retirements -> 1..MaxSeats] :
        LET rq == [p \in Procs |-> IF p = "p1" THEN r ELSE IdleRequest]
        IN /\ r.user = "u1"
           /\ r.coupon = NoCoupon
           /\ r.payment_token /\ ~r.single_use_token
           /\ InitDatabaseOf({"p1"}, rq, places)
           /\ InitRequests({"p1"}, rq)
           /\ quote = Unpriced(0)
           /\ workplace = [t \in Timeslots |-> TRUE]
           /\ line_check = NoLineCheck
           /\ slots = [t \in Timeslots |-> CatalogSlot]
           /\ update_response = NoUpdate
           /\ payment_response = Unpaid(0)

SpecSeats == InitSeats /\ [][Next]_vars

\* One order paid with a stored card, and the updates of the stored order.
InitUpdate ==
    \E r \in Requests :
        LET rq == [p \in Procs |-> IF p = "p1" THEN r ELSE IdleRequest]
        IN /\ r.user = "u1"
           /\ r.payment_token /\ ~r.single_use_token
           /\ InitDatabase({"p1"}, rq)
           /\ InitRequests({"p1"}, rq)
           /\ quote = Unpriced(0)
           /\ workplace = [t \in Timeslots |-> TRUE]
           /\ line_check = NoLineCheck
           /\ slots = [t \in Timeslots |-> CatalogSlot]
           /\ update_response = NoUpdate
           /\ payment_response = Unpaid(0)

NextUpdate == Next \/ UpdateOrder

SpecUpdate == InitUpdate /\ [][NextUpdate]_vars

\* Two orders of one user, the second one of a package with a coupon that
\* the first one can present too, one after the other or at the same time,
\* and the updates of the stored orders.
InitRedeem ==
    \E rq \in [Procs -> ConcurrentRequests] :
        /\ \A p \in Procs : rq[p].user = "u1"
        /\ rq["p1"].coupon = NoCoupon
              <=> rq["p1"].order_lines[1].content_type = "timeslot"
        /\ rq["p2"].coupon # NoCoupon
        /\ rq["p2"].order_lines[1].content_type = "package"
        /\ InitDatabase(Procs, rq)
        /\ InitRequests(Procs, rq)
        /\ quote = Unpriced(0)
        /\ workplace = [t \in Timeslots |-> TRUE]
        /\ line_check = NoLineCheck
        /\ slots = [t \in Timeslots |-> CatalogSlot]
        /\ update_response = NoUpdate
        /\ payment_response = Unpaid(0)

SpecRedeem == InitRedeem /\ [][NextUpdate]_vars

\* The coupon administration alone, from an empty table of coupons: no
\* order is in progress.
InitCoupon ==
    LET rq == [p \in Procs |-> IdleRequest]
    IN /\ InitDatabase({}, rq) /\ InitRequests({}, rq)
       /\ quote = Unpriced(0)
       /\ workplace = [t \in Timeslots |-> TRUE]
       /\ line_check = NoLineCheck
       /\ slots = [t \in Timeslots |-> DefaultSlot]
       /\ update_response = NoUpdate
       /\ payment_response = Unpaid(0)

NextCoupon == CouponCreate \/ CouponUpdate \/ CouponPartialUpdate

SpecCoupon == InitCoupon /\ [][NextCoupon]_vars

\* The pricing alone, of an order of any total cost.
InitPricing ==
    LET rq == [p \in Procs |-> IdleRequest]
    IN \E total \in 0..MaxTotal :
           InitDatabase({}, rq) /\ InitRequests({}, rq)
               /\ quote = Unpriced(total)
               /\ workplace = [t \in Timeslots |-> TRUE]
               /\ line_check = NoLineCheck
               /\ slots = [t \in Timeslots |-> DefaultSlot]
               /\ update_response = NoUpdate
               /\ payment_response = Unpaid(0)

NextPricing == PriceOrder

SpecPricing == InitPricing /\ [][NextPricing]_vars

\* The validation alone, of any order line for any user and product.
InitLine ==
    LET rq == [p \in Procs |-> IdleRequest]
    IN \E u \in LineUsers, type \in ProductTypes, obj \in LineProducts :
           /\ InitDatabase({}, rq) /\ InitRequests({}, rq)
           /\ quote = Unpriced(0)
           /\ workplace = [t \in Timeslots |-> TRUE]
           /\ line_check = [user |-> u, content_type |-> type, obj |-> obj,
                            result |-> ""]
           /\ slots = [t \in Timeslots |-> DefaultSlot]
           /\ update_response = NoUpdate
           /\ payment_response = Unpaid(0)

NextLine == ValidateOrderLine

SpecLine == InitLine /\ [][NextLine]_vars

\* The administration of the timeslots alone: no order is in progress, the
\* users hold any tickets and any of them one or two active reservations
\* of the timeslot, also the overbooked tables that concurrent orders can
\* leave.
InitTimeslot ==
    LET rq == [p \in Procs |-> IdleRequest]
    IN /\ users \in [Users -> {[DefaultUser EXCEPT !.tickets = n] :
                                  n \in 0..MaxTickets}]
       /\ \E b \in SUBSET Users, twice \in SUBSET Users :
             /\ twice \subseteq b
             /\ reservations =
                    {ReservationRow(u, t) : u \in b, t \in Timeslots}
                    \cup {[ReservationRow(u, t) EXCEPT !.rid = <<u, 1>>] :
                             u \in twice, t \in Timeslots}
       /\ profiles = {}
       /\ orders = {}
       /\ retirement_reservations = {}
       /\ reserved_seats = [r \in Retirements |-> 0]
       /\ seats = [r \in Retirements |-> Catalog.retirement.seats]
       /\ wait_queue = {}
       /\ notifications = {}
       /\ coupon_uses = [c \in CouponCodes |-> [u \in Users |-> 0]]
       /\ InitRequests({}, rq)
       /\ quote = Unpriced(0)
       /\ workplace = [t \in Timeslots |-> TRUE]
       /\ line_check = NoLineCheck
       /\ slots = [t \in Timeslots |-> DefaultSlot]
       /\ update_response = NoUpdate
       /\ payment_response = Unpaid(0)

NextTimeslot == UpdateTimeslot

SpecTimeslot == InitTimeslot /\ [][NextTimeslot]_vars

\* The deletion of a timeslot alone.
NextDelete == DeleteTimeslot

SpecDelete == InitTimeslot /\ [][NextDelete]_vars

\* The custom payments alone, of any price.
InitPayment ==
    \E price \in 0..MaxCustomPrice :
        LET rq == [p \in Procs |-> IdleRequest]
        IN /\ InitDatabase({}, rq) /\ InitRequests({}, rq)
           /\ quote = Unpriced(0)
           /\ workplace = [t \in Timeslots |-> TRUE]
           /\ line_check = NoLineCheck
           /\ slots = [t \in Timeslots |-> DefaultSlot]
           /\ update_response = NoUpdate
           /\ payment_response = Unpaid(price)

NextPayment == CustomPaymentCreate

SpecPayment == InitPayment /\ [][NextPayment]_vars

\* ================================================================ claims
Lines(p) == req[p].order_lines
CallsOf(p, name) == {k \in DOMAIN ext[p] : ext[p][k].call = name}
FailedCalls(p, name) == {k \in CallsOf(p, name) : ~ext[p][k].ok}
Paid(lines) ==
    \/ HasType(lines, "membership")
    \/ HasType(lines, "package")
    \/ HasType(lines, "retirement")
ActiveOn(rows, t) == {r \in rows : r.timeslot = t /\ r.is_active}
ActiveIn(rows, r) == {x \in rows : x.retirement = r /\ x.is_active}

\* C1: a request that create() rejected has left every table the atomic
\* block writes (users, orders with their lines, both kinds of reservations,
\* reserved_seats, wait queue, coupon uses) as it was when the request
\* started.
C1_FailureRollsBack ==
    \A p \in Procs : pc[p] = "rejected" => Tables = TablesOf(before[p])

\* The charge of an order with a timeslot line and a coupon failed: the
\* reservation, the ticket debit and the coupon use had been written.
C1_Witness ==
    /\ pc["p1"] = "rejected"
    /\ err["p1"] = "payment_api"
    /\ FailedCalls("p1", "charge_payment") # {}
    /\ HasType(Lines("p1"), "timeslot")
    /\ req["p1"].coupon # NoCoupon

\* C2: no timeslot has more active reservations than its workplace has
\* seats, whatever the interleaving of the order creations: the users who
\* hold an active reservation of a timeslot are at most as many as the
\* seats.
C2_NoOverbooking ==
    \A t \in Timeslots :
        Cardinality({r.user : r \in ActiveOn(reservations, t)})
            <= Catalog.timeslot.seats

\* C3: one execution of create() calls charge_payment at most once, and a
\* charge that failed is the last call of a rejected request.
C3_ChargedAtMostOnce ==
    \A p \in Procs :
        /\ Cardinality(CallsOf(p, "charge_payment")) <= 1
        /\ \A k \in FailedCalls(p, "charge_payment") :
              pc[p] = "rejected" /\ k = Len(ext[p])

\* An order presented with both tokens was charged, once.
C3_Witness ==
    /\ pc["p1"] = "done"
    /\ req["p1"].payment_token /\ req["p1"].single_use_token
    /\ Cardinality(CallsOf("p1", "charge_payment")) = 1

\* C4: once charge_payment has been called, no block of checks and writes
\* is left to run: the request is at the commit or after it, or it was
\* rejected by the failure of that charge.
C4_ChargeIsLast ==
    \A p \in Procs :
        CallsOf(p, "charge_payment") # {} =>
            \/ pc[p] \in {"commit", "email", "done"}
            \/ /\ pc[p] = "rejected"
               /\ err[p] = "payment_api"
               /\ FailedCalls(p, "charge_payment") # {}

\* An order with a package and a retirement was charged and committed.
C4_Witness ==
    /\ pc["p1"] = "done"
    /\ CallsOf("p1", "charge_payment") # {}
    /\ HasType(Lines("p1"), "retirement")
    /\ HasType(Lines("p1"), "package")
    /\ \E x \in retirement_reservations : x.rid[1] = "p1"

\* C5: a user has at most one active reservation of a timeslot and at most
\* one of a retirement, whatever the interleaving of the order creations.
C5_OneReservationPerUser ==
    \A u \in Users :
        /\ \A t \in Timeslots :
              Cardinality({r \in ActiveOn(reservations, t) : r.user = u}) <= 1
        /\ \A r \in Retirements :
              Cardinality({x \in ActiveIn(retirement_reservations, r) :
                              x.user = u}) <= 1

\* The user of request p held an active reservation of the resource when
\* the request started, or the cart of p has two lines for the resource.
HeldTimeslots(p) ==
    {t \in Timeslots :
        /\ \E k \in DOMAIN Lines(p) :
              Lines(p)[k].content_type = "timeslot" /\ Lines(p)[k].object_id = t
        /\ \E r \in ActiveOn(before[p].reservations, t) : r.user = req[p].user}
TwiceTimeslots(p) ==
    {t \in Timeslots :
        \E j, k \in DOMAIN Lines(p) :
            /\ j < k
            /\ Lines(p)[j].content_type = "timeslot" /\ Lines(p)[j].object_id = t
            /\ Lines(p)[k].content_type = "timeslot" /\ Lines(p)[k].object_id = t}
HeldRetirements(p) ==
    {r \in Retirements :
        /\ \E k \in DOMAIN Lines(p) :
              Lines(p)[k].content_type = "retirement" /\ Lines(p)[k].object_id = r
        /\ \E x \in ActiveIn(before[p].retirement_reservations, r) :
              x.user = req[p].user}
TwiceRetirements(p) ==
    {r \in Retirements :
        \E j, k \in DOMAIN Lines(p) :
            /\ j < k
            /\ Lines(p)[j].content_type = "retirement"
            /\ Lines(p)[j].object_id = r
            /\ Lines(p)[k].content_type = "retirement"
            /\ Lines(p)[k].object_id = r}

\* The errors of the checks that run before the duplicate check of a
\* timeslot line, and before that of a retirement line.
RejectedBeforeAtomic(p) ==
    err[p] = "payment_api" /\ FailedCalls(p, "create_profile") # {}
BeforeTimeslotCheck == {"coupon", "active_membership", "not_enough_tickets"}
BeforeRetirementCheck ==
    BeforeTimeslotCheck
    \cup {"already_registered_timeslot", "no_places_timeslot",
          "incomplete_profile"}

NoNewReservation(p) ==
    /\ \A r \in reservations : r.rid[1] # p
    /\ \A x \in retirement_reservations : x.rid[1] # p

\* C6 (amended): a request with a line for a timeslot or retirement its
\* user already holds, or with two lines for one, never commits and creates
\* no reservation row; it is rejected with the already-registered error
\* unless a check that runs earlier rejects it: the profile creation, the
\* coupon, the membership, the ticket balance (tested before the duplicate
\* check of each timeslot line), for a retirement also the timeslot block
\* and the profile completeness, and for a second line of the same order
\* the capacity check of the first.
C6_DuplicateLineRejected ==
    \A p \in Procs :
        /\ HeldTimeslots(p) \cup TwiceTimeslots(p) # {} =>
              /\ pc[p] \notin {"commit", "email", "done"}
              /\ NoNewReservation(p)
              /\ pc[p] = "rejected" =>
                    \/ RejectedBeforeAtomic(p)
                    \/ err[p] \in BeforeTimeslotCheck
                    \/ err[p] = "already_registered_timeslot"
                    \/ /\ HeldTimeslots(p) = {}
                       /\ err[p] = "no_places_timeslot"
        /\ HeldRetirements(p) \cup TwiceRetirements(p) # {} =>
              /\ pc[p] \notin {"commit", "email", "done"}
              /\ NoNewReservation(p)
              /\ pc[p] = "rejected" =>
                    \/ RejectedBeforeAtomic(p)
                    \/ err[p] \in BeforeRetirementCheck
                    \/ err[p] = "already_registered_retirement"
                    \/ /\ HeldRetirements(p) = {}
                       /\ err[p] = "no_places_retirement"

\* A second line for the same retirement was rejected as already registered
\* after the first line had reserved.
C6_Witness ==
    /\ pc["p1"] = "rejected"
    /\ err["p1"] = "already_registered_retirement"
    /\ HeldRetirements("p1") = {}
    /\ TwiceRetirements("p1") # {}

\* C6 as stated: a rejected request for timeslots only, without coupon and
\* without single_use_token, whose user already holds an active reservation
\* of the timeslot, is rejected with the already-registered error.
C6_AlwaysAlreadyRegistered ==
    \A p \in Procs :
        /\ HeldTimeslots(p) # {}
        /\ ~Paid(Lines(p))
        /\ req[p].coupon = NoCoupon
        /\ ~req[p].single_use_token
        /\ pc[p] = "rejected"
        => err[p] = "already_registered_timeslot"

\* C7: a rejected request whose user had no payment profile and presented a
\* single_use_token leaves no PaymentProfile row of that user.
C7_RejectedLeavesNoProfile ==
    \A p \in Procs :
        /\ pc[p] = "rejected"
        /\ req[p].single_use_token
        /\ req[p].user \notin before[p].profiles
        => req[p].user \notin profiles

\* C8: when the creation of the external profile failed, the request is
\* rejected, the database is as it was (no PaymentProfile, Order, OrderLine
\* or reservation), and neither create_external_card nor charge_payment was
\* called.
C8_ProfileFailureStopsAll ==
    \A p \in Procs :
        FailedCalls(p, "create_profile") # {} =>
            /\ pc[p] = "rejected"
            /\ Snapshot = before[p]
            /\ CallsOf(p, "create_card") = {}
            /\ CallsOf(p, "charge_payment") = {}

\* The profile creation failed for an order that would have been charged.
C8_Witness ==
    /\ FailedCalls("p1", "create_profile") # {}
    /\ pc["p1"] = "rejected"
    /\ HasType(Lines("p1"), "package")
    /\ HasType(Lines("p1"), "retirement")

\* C9: a request whose lines are all timeslot lines makes no external
\* payment call.
C9_ReservationOnlyNoExternalCall ==
    \A p \in Procs : ~Paid(Lines(p)) => ext[p] = <<>>

\* C10: charge_payment is called only for an order with a membership,
\* package or retirement line and with a non-zero amount; a committed order
\* whose total is zero or whose lines are all timeslot lines was not
\* charged.
C10_ChargeOnlyIfPaidAndNonZero ==
    \A p \in Procs :
        /\ \A k \in CallsOf(p, "charge_payment") :
              Paid(Lines(p)) /\ ext[p][k].amount # 0
        /\ \A o \in orders :
              /\ o.id = p
              /\ \/ IntAmount(Amount(TotalCost(o.order_lines))) = 0
                 \/ ~Paid(o.order_lines)
              => CallsOf(p, "charge_payment") = {}

\* A fully discounted package order with a payment_token was committed
\* without a charge.
C10_Witness ==
    /\ pc["p1"] = "done"
    /\ req["p1"].payment_token
    /\ HasType(Lines("p1"), "package")
    /\ \E o \in orders : o.id = "p1" /\ TotalCost(o.order_lines) = 0
    /\ ext["p1"] = <<>>

\* A successful charge of request p.
Charges(p) == {k \in CallsOf(p, "charge_payment") : ext[p][k].ok}
NoToken(p) == ~req[p].payment_token /\ ~req[p].single_use_token
NonZero(lines) == IntAmount(Amount(TotalCost(lines))) # 0

LinesReserved(o) ==
    /\ \A k \in DOMAIN o.order_lines :
          o.order_lines[k].content_type = "timeslot"
          => \E r \in reservations : r.rid = <<o.id, k>>
    /\ \A k \in DOMAIN o.order_lines :
          o.order_lines[k].content_type = "retirement"
          => \E x \in retirement_reservations : x.rid = <<o.id, k>>

\* C12: the authorization_id and the settlement_id of a committed order
\* differ from "0" exactly when a charge of the order succeeded, and then
\* they and the reference_number are the gateway's; the order row, its
\* reservations and every other write of the atomic block are committed
\* together: the order row is there with the reservations of its lines, and
\* a request whose order row is not there has changed no table.
C12_IdsIffCharged ==
    /\ \A o \in orders :
          /\ o.authorization_id # "0" <=> Charges(o.id) # {}
          /\ o.settlement_id # "0" <=> Charges(o.id) # {}
          /\ Charges(o.id) # {} =>
                /\ o.authorization_id = "authorization"
                /\ o.settlement_id = "settlement"
                /\ o.reference_number = "merchantRefNum"
          /\ LinesReserved(o)
          /\ pc[o.id] = "done" \/ pc[o.id] = "email"
    /\ \A p \in Procs :
          (\A o \in orders : o.id # p) /\ pc[p] \notin {"idle", "off"}
          => Tables = TablesOf(before[p])

\* A charged order for a timeslot and a discounted package was committed.
C12_Witness ==
    /\ pc["p1"] = "done"
    /\ req["p1"].coupon # NoCoupon
    /\ \E o \in orders :
          /\ o.id = "p1"
          /\ o.settlement_id = "settlement"
          /\ HasType(o.order_lines, "timeslot")
          /\ HasType(o.order_lines, "package")
          /\ Charges("p1") # {}

\* C13: the failure of an email after the commit changes no table and no
\* payment profile and makes no external call (no refund, no second
\* charge): the order stays committed with the reservations of its lines
\* and, if it was charged, with the gateway's settlement id.
C13_EmailFailureKeepsOrder ==
    [][\A p \in Procs :
          pc[p] = "email" /\ err'[p] = "email"
          => /\ Tables' = Tables
             /\ profiles' = profiles
             /\ ext' = ext
             /\ \E o \in orders' :
                   /\ o.id = p
                   /\ LinesReserved(o)'
                   /\ Charges(p) # {} => o.settlement_id = "settlement"]_vars

\* The email of a charged order with a retirement and a coupon failed.
C13_Witness ==
    /\ pc["p1"] = "done"
    /\ err["p1"] = "email"
    /\ Charges("p1") # {}
    /\ req["p1"].coupon # NoCoupon
    /\ \E x \in retirement_reservations : x.rid[1] = "p1"
    /\ \E o \in orders : o.id = "p1" /\ o.settlement_id = "settlement"

\* C14: a call of create() that got past the atomic block returns the
\* order: it does not end with the error of a failed email.
C14_EmailFailureSwallowed ==
    \A p \in Procs : pc[p] = "done" => err[p] = ""

\* Request p commits in this step; request p is rejected in this step.
Commits(p) == pc[p] = "commit" /\ pc'[p] # "commit"
Rejects(p) == pc[p] # "rejected" /\ pc'[p] = "rejected"

\* C15: the commit of an order that redeems a coupon raises the
\* CouponUser.uses of its user and coupon by exactly one, whatever the
\* other requests do meanwhile, and a rejected order changes no uses.
C15_NoCouponUseLost ==
    [][\A p \in Procs :
          /\ Commits(p) /\ req[p].coupon # NoCoupon
             => coupon_uses'[req[p].coupon][req[p].user]
                    = coupon_uses[req[p].coupon][req[p].user] + 1
          /\ Rejects(p) => coupon_uses' = coupon_uses]_vars

\* C16: the commit of an order changes the ticket balance of its user by
\* the tickets of its package lines minus one per timeslot line, whatever
\* the other requests of the user do meanwhile.
C16_NoTicketChangeLost ==
    [][\A p \in Procs :
          Commits(p)
          => users'[req[p].user].tickets
                 = users[req[p].user].tickets
                   + TicketsOfPackages(Lines(p),
                                       IndicesOfType(Lines(p), "package"))
                   - Len(IndicesOfType(Lines(p), "timeslot"))]_vars

\* The coupon of request p had reached max_use, or max_use_per_user for the
\* user of p, when the request started.
Exhausted(p) ==
    /\ req[p].coupon # NoCoupon
    /\ \/ SumOver(before[p].coupon_uses[req[p].coupon], Users)
              >= Coupons[req[p].coupon].max_use
       \/ before[p].coupon_uses[req[p].coupon][req[p].user]
              >= Coupons[req[p].coupon].max_use_per_user

\* C17: a request that presents an exhausted coupon gets no further than
\* the coupon validation, and once rejected it has left the database as it
\* was; no user's uses of a coupon exceed max_use_per_user and no coupon's
\* total uses exceed max_use.
C17_ExhaustedCouponRejected ==
    /\ \A p \in Procs :
          Exhausted(p) =>
              /\ pc[p] \in {"off", "idle", "order", "rejected"}
              /\ pc[p] = "rejected" => Snapshot = before[p]
    /\ \A c \in CouponCodes :
          /\ SumOver(coupon_uses[c], Users) <= Coupons[c].max_use
          /\ \A u \in Users : coupon_uses[c][u] <= Coupons[c].max_use_per_user

\* unit_price * quantity of an order line, and the lines of an order that
\* carry a coupon.
ListPrice(line) == Catalog[line.content_type].price * line.quantity
CouponLines(o) ==
    {k \in DOMAIN o.order_lines : o.order_lines[k].coupon # NoCoupon}
CouponLineRight(o, line) ==
    /\ line.cost = ListPrice(line) - line.coupon_real_value
    /\ line.coupon_real_value > 0
    /\ line.coupon = req[o.id].coupon

ExactlyOne(c) == Truthy(c.value) # Truthy(c.percent_off)

\* C20: after any sequence of create, update and partial_update requests
\* every stored coupon has exactly one of value and percent_off set to a
\* non-zero amount, and a request that is rejected leaves the stored
\* coupons as they were.
C20_ExactlyOneDiscount ==
    [][/\ \A i \in DOMAIN stored_coupons' : ExactlyOne(stored_coupons'[i])
       /\ coupon_response'.status # "ok" => stored_coupons' = stored_coupons
       /\ DOMAIN stored_coupons \subseteq DOMAIN stored_coupons']_vars

\* A partial_update that set percent_off on a coupon with a value, without
\* clearing the value, was rejected; the coupon still has its value only.
C20_Witness ==
    /\ coupon_response.action = "partial_update"
    /\ coupon_response.status = "both"
    /\ coupon_response.data.value = None
    /\ Truthy(coupon_response.data.percent_off)
    /\ coupon_response.id \in DOMAIN stored_coupons
    /\ Truthy(stored_coupons[coupon_response.id].value)
    /\ ~Truthy(stored_coupons[coupon_response.id].percent_off)

\* n/d rounded to the nearest integer, ties upwards (n >= 0).
RoundHalfUp(n, d) == (2 * n + d) \div (2 * d)

\* C21: the amount passed to charge_payment is the total cost with the tax,
\* in cents, rounded half-up to an integer in one step.
C21_ChargedAmountHalfUp ==
    quote.priced =>
        quote.charged = RoundHalfUp(quote.total * (TAX_RATE.den + TAX_RATE.num),
                                    TAX_RATE.den)

\* C22: the total cost plus the tax, rounded to the cent, differs from the
\* amount charged by at most one cent.
C22_CostPlusTaxIsCharge ==
    quote.priced => Abs(quote.total + quote.tax - quote.charged) <= 1

\* A total whose charge is one cent away from the total plus the tax.
C22_Witness ==
    /\ quote.priced
    /\ quote.int_amount # 0
    /\ Abs(quote.total + quote.tax - quote.charged) = 1

\* The user's row when request p started, and the requests for a membership.
UserBefore(p) == before[p].users[req[p].user]
OrdersMembership(p) ==
    pc[p] \notin {"idle", "off"} /\ HasType(Lines(p), "membership")

\* C23: a request with a membership line by a user who holds a membership
\* that has not ended is never committed, the membership test rejects it
\* with the active-membership error and then it has left nothing behind;
\* every other request with a membership line, once committed, has
\* set the user's membership to the product of its first membership line
\* and membership_end to today plus the product's duration.
C23_MembershipOrder ==
    \A p \in Procs :
        OrdersMembership(p) =>
            /\ ActiveMembership(UserBefore(p)) =>
                  /\ pc[p] \in {"order", "products", "rejected"}
                  /\ pc[p] = "rejected" =>
                        /\ \/ RejectedBeforeAtomic(p)
                           \/ err[p] \in {"coupon", "active_membership"}
                        /\ err[p] = "active_membership" =>
                               Snapshot = before[p]
            /\ err[p] = "active_membership" => ActiveMembership(UserBefore(p))
            /\ pc[p] \in {"email", "done"} =>
                  /\ users[req[p].user].membership = "m1"
                  /\ users[req[p].user].membership_end
                         = Today + Catalog.membership.duration

\* The retirements request p orders, the places a retirement had left when
\* p started, and whether p's user could take a seat held back for the
\* wait queue.
OrderedRetirements(p) ==
    {Lines(p)[k].object_id :
        k \in {j \in DOMAIN Lines(p) :
                  Lines(p)[j].content_type = "retirement"}}
RemainingBefore(p, r) ==
    seats[r]
        - Cardinality(ActiveIn(before[p].retirement_reservations, r))
        - before[p].reserved_seats[r]
Notified(p, r) ==
    before[p].reserved_seats[r] > 0 /\ <<req[p].user, r>> \in notifications

\* C24: when a retirement has no ordinary place left, a request gets past
\* the test of the places only if reserved_seats is positive and its user
\* has a wait-queue notification for the retirement, and is refused for
\* lack of places only otherwise; a committed order admitted this way has
\* lowered reserved_seats by exactly one, holds an active reservation and
\* has removed its user from the retirement's wait queue.
C24_WaitQueueOverride ==
    \A p \in Procs : \A r \in OrderedRetirements(p) :
        pc[p] \notin {"idle", "off"} /\ RemainingBefore(p, r) <= 0 =>
            /\ pc[p] \in {"charge", "commit", "email", "done"}
                  => Notified(p, r)
            /\ err[p] = "no_places_retirement" => ~Notified(p, r)
            /\ pc[p] \in {"email", "done"} =>
                  /\ reserved_seats[r] = before[p].reserved_seats[r] - 1
                  /\ \E x \in ActiveIn(retirement_reservations, r) :
                         x.user = req[p].user
                  /\ <<req[p].user, r>> \notin wait_queue

\* A committed order admitted to a full retirement through the seat held
\* back: reserved_seats went from 1 to 0 and the wait-queue entry is gone.
C24_Witness ==
    /\ pc["p1"] = "done"
    /\ RemainingBefore("p1", "r1") = 0
    /\ before["p1"].reserved_seats["r1"] = 1
    /\ <<"u1", "r1">> \in before["p1"].wait_queue
    /\ <<"u1", "r1">> \in notifications
    /\ reserved_seats["r1"] = 0
    /\ <<"u1", "r1">> \notin wait_queue
    /\ \E x \in ActiveIn(retirement_reservations, "r1") : x.user = "u1"

\* C25: while the two requests are by different users, no retirement has
\* more active reservations than seats, however the requests interleave.
C25_RetirementNeverOverbooked ==
    req["p1"].user # req["p2"].user =>
        \A r \in Retirements :
            Cardinality(ActiveIn(retirement_reservations, r)) <= seats[r]

\* The tickets of p's user when the timeslot block starts: the user's
\* balance plus the tickets of the packages of the order.
TicketsAtTimeslots(p) ==
    UserBefore(p).tickets
        + TicketsOfPackages(Lines(p), IndicesOfType(Lines(p), "package"))

\* C26 (amended): a timeslot whose period has no workplace reports 0
\* places_remaining; a request with a line for it is never committed,
\* creates no reservation and, once rejected, has debited no ticket; the
\* timeslot block refuses it for lack of tickets when the user's tickets do
\* not cover the timeslot's price, else because the user already holds a
\* reservation of the timeslot, else for lack of places.
C26_NoWorkplaceNoPlace ==
    \A t \in Timeslots :
        ~workplace[t] =>
            /\ places_remaining(t) = 0
            /\ \A p \in Procs :
                  (pc[p] \notin {"idle", "off"} /\ HasType(Lines(p), "timeslot"))
                  => /\ pc[p] \notin {"retirements", "charge", "commit",
                                      "email", "done"}
                     /\ reservations = before[p].reservations
                     /\ pc[p] = "rejected" =>
                           /\ users = before[p].users
                           /\ \/ RejectedBeforeAtomic(p)
                              \/ err[p] = "active_membership"
                              \/ /\ err[p] = "not_enough_tickets"
                                 /\ TicketsAtTimeslots(p)
                                        < Catalog.timeslot.price
                              \/ /\ err[p] = "already_registered_timeslot"
                                 /\ TicketsAtTimeslots(p)
                                        >= Catalog.timeslot.price
                                 /\ HeldTimeslots(p) # {}
                              \/ /\ err[p] = "no_places_timeslot"
                                 /\ TicketsAtTimeslots(p)
                                        >= Catalog.timeslot.price
                                 /\ HeldTimeslots(p) = {}

\* A user with a ticket is refused the timeslot without workplace for lack
\* of places and keeps the ticket.
C26_Witness ==
    /\ ~workplace["t1"]
    /\ HasType(Lines("p1"), "timeslot")
    /\ pc["p1"] = "rejected"
    /\ err["p1"] = "no_places_timeslot"
    /\ before["p1"].users["u1"].tickets = 1
    /\ users["u1"].tickets = 1
    /\ ActiveOn(reservations, "t1") = {}

\* C26 as stated: every rejected request for timeslots only, with a line
\* for a timeslot without workplace of which its user holds no reservation,
\* is rejected for lack of places, whatever the tickets of its user.
C26_AlwaysNoPlaces ==
    \A p \in Procs :
        /\ HasType(Lines(p), "timeslot")
        /\ ~workplace[Lines(p)[Head(IndicesOfType(Lines(p), "timeslot"))].object_id]
        /\ HeldTimeslots(p) = {}
        /\ ~Paid(Lines(p))
        /\ ~req[p].single_use_token
        /\ pc[p] = "rejected"
        => err[p] = "no_places_timeslot"

\* C27: a validated order line whose product does not exist is rejected for
\* every user; for a user who is not staff, a package or retirement
\* exclusive to memberships the user's is not one of, and a membership open
\* to academic levels the user's is not one of, are rejected; a staff
\* user's line is rejected by neither of these two rules.
C27_LineEligibility ==
    LET user == line_check.user
        type == line_check.content_type
        obj == line_check.obj
    IN line_check.result # "" =>
           /\ ~obj.exists => line_check.result = "does_not_exist"
           /\ (/\ obj.exists /\ ~user.is_staff
               /\ type \in {"package", "retirement"}
               /\ obj.exclusive_memberships # {}
               /\ user.membership \notin obj.exclusive_memberships)
              => line_check.result = "membership_required"
           /\ (/\ obj.exists /\ ~user.is_staff
               /\ type = "membership"
               /\ obj.academic_levels # {}
               /\ user.academic_level \notin obj.academic_levels)
              => line_check.result = "academic_level_required"
           /\ user.is_staff =>
                  line_check.result \in {"does_not_exist", "valid"}

\* A staff user without membership is let through to a retirement that is
\* exclusive to the members of m1.
C27_Witness ==
    /\ line_check.user.is_staff
    /\ line_check.user.membership = NoMembership
    /\ line_check.content_type = "retirement"
    /\ line_check.obj.exists
    /\ line_check.obj.exclusive_memberships = {"m1"}
    /\ line_check.result = "valid"

\* C28: a creation that reached the generation of the code ends with the
\* code-generation error exactly when no draw of the loop was a code that
\* is not in use; one that drew such a code has stored the coupon.
C28_ErrorIffNoFreshCode ==
    (coupon_response.action = "create"
        /\ coupon_response.status \in {"ok", "no_code"})
    => /\ coupon_response.status = "no_code" <=> ~coupon_response.draws.fresh
       /\ coupon_response.draws.fresh =>
              /\ coupon_response.id = Len(stored_coupons)
              /\ stored_coupons[coupon_response.id].code # NoCode

\* The reservations of the updated timeslot that were active before the
\* last update, and whether that update changed start_time or end_time.
ActiveBeforeUpdate ==
    ActiveOn(update_response.prior.reservations, update_response.timeslot)
UpdateChangedTimes ==
    /\ update_response.timeslot # ""
    /\ TimesChange(update_response.prior.slot, update_response.data)

\* C29: an update with force_update that changes start_time or end_time of
\* a timeslot with active reservations is accepted, whether or not the
\* emails were sent; every reservation that was active is inactive with
\* cancelation_reason 'TM' and a cancelation date, every user has one more
\* ticket per reservation of theirs that was cancelled, and the timeslot's
\* places_remaining is the number of seats of the workplace.
C29_ForcedUpdateCancels ==
    (UpdateChangedTimes /\ update_response.data.force_update
        /\ ActiveBeforeUpdate # {})
    => /\ update_response.status = "ok"
       /\ \A r \in ActiveBeforeUpdate :
              /\ r \notin reservations
              /\ \E x \in reservations :
                     /\ x.rid = r.rid /\ x.user = r.user
                     /\ ~x.is_active
                     /\ x.cancelation_reason = "TM"
                     /\ x.cancelation_date # NoDate
       /\ ActiveOn(reservations, update_response.timeslot) = {}
       /\ \A u \in Users :
              users[u].tickets
                  = update_response.prior.users[u].tickets
                    + Cardinality({r \in ActiveBeforeUpdate : r.user = u})
       /\ places_remaining(update_response.timeslot)
              = Catalog.timeslot.seats

\* A forced change of the start_time whose emails could not be sent: both
\* users had a reservation, both are cancelled and each got a ticket back.
C29_Witness ==
    /\ UpdateChangedTimes
    /\ update_response.data.force_update
    /\ update_response.status = "ok"
    /\ update_response.emails = 0
    /\ {r.user : r \in ActiveBeforeUpdate} = Users
    /\ \A u \in Users :
           users[u].tickets = update_response.prior.users[u].tickets + 1
    /\ \A r \in reservations : r.cancelation_reason = "TM"

\* C30: an update without force_update that changes start_time or end_time
\* of a timeslot with active reservations is refused and leaves the
\* timeslot, the reservations and the users as they were; an update that
\* changes neither is accepted, leaves every reservation and every user's
\* tickets as they were and sends no email.
C30_UnforcedUpdateRefused ==
    /\ (UpdateChangedTimes /\ ~update_response.data.force_update
           /\ ActiveBeforeUpdate # {})
       => /\ update_response.status = "force_update_required"
          /\ reservations = update_response.prior.reservations
          /\ users = update_response.prior.users
          /\ slots[update_response.timeslot] = update_response.prior.slot
          /\ update_response.emails = 0
    /\ (update_response.timeslot # "" /\ ~UpdateChangedTimes)
       => /\ update_response.status = "ok"
          /\ reservations = update_response.prior.reservations
          /\ \A r \in ActiveBeforeUpdate :
                 /\ r.cancelation_reason = NoReason
                 /\ r.cancelation_date = NoDate
          /\ users = update_response.prior.users
          /\ update_response.emails = 0

\* A change of the end_time without force_update, refused while a user
\* holds a reservation of the timeslot.
C30_Witness ==
    /\ UpdateChangedTimes
    /\ ~update_response.data.force_update
    /\ update_response.data.end_time = 14
    /\ ActiveBeforeUpdate # {}
    /\ update_response.status = "force_update_required"
    /\ ActiveOn(reservations, update_response.timeslot) = ActiveBeforeUpdate

\* The reservations of the timeslot that were active before the deletion.
ActiveBeforeDelete ==
    ActiveOn(update_response.prior.reservations, update_response.timeslot)

\* C31: the deletion of a timeslot with active reservations is refused, and
\* nothing changes, unless force_delete is sent and true; with force_delete
\* true it is accepted, every reservation that was active is inactive with
\* cancelation_reason 'TD' and a cancelation date, and every user has one
\* more ticket per reservation of theirs that was cancelled.
C31_ForcedDeleteCancels ==
    (update_response.timeslot # "" /\ ActiveBeforeDelete # {}) =>
        IF update_response.force_delete = "true"
        THEN /\ update_response.status = "deleted"
             /\ \A r \in ActiveBeforeDelete :
                    /\ r \notin reservations
                    /\ \E x \in reservations :
                           /\ x.rid = r.rid /\ x.user = r.user
                           /\ ~x.is_active
                           /\ x.cancelation_reason = "TD"
                           /\ x.cancelation_date # NoDate
             /\ \A u \in Users :
                    users[u].tickets
                        = update_response.prior.users[u].tickets
                          + Cardinality({r \in ActiveBeforeDelete :
                                            r.user = u})
        ELSE /\ update_response.status
                    \in {"force_delete_required", "invalid_boolean"}
             /\ reservations = update_response.prior.reservations
             /\ users = update_response.prior.users
             /\ slots[update_response.timeslot] = update_response.prior.slot
             /\ update_response.emails = 0

\* A forced deletion while u1 holds two reservations of the timeslot and u2
\* one: u1 has two tickets more, u2 one.
C31_Witness ==
    /\ update_response.force_delete = "true"
    /\ update_response.status = "deleted"
    /\ Cardinality({r \in ActiveBeforeDelete : r.user = "u1"}) = 2
    /\ Cardinality({r \in ActiveBeforeDelete : r.user = "u2"}) = 1
    /\ users["u1"].tickets = update_response.prior.users["u1"].tickets + 2
    /\ users["u2"].tickets = update_response.prior.users["u2"].tickets + 1
    /\ \A r \in reservations : r.cancelation_reason = "TD"

\* The reservations of timeslots that request p created.
ReservationsOf(p) == {r \in reservations : r.rid[1] = p}

\* C32: the user of a committed order has the tickets held before the
\* order, plus the tickets of the package lines, minus one per timeslot
\* reservation the order created; and the test of the tickets of a timeslot
\* line counts the tickets of every package line of the order, less one
\* per timeslot line already reserved, wherever the lines stand in the
\* cart.
C32_TicketsOfCommittedOrder ==
    \A p \in Procs :
        /\ pc[p] \in {"email", "done"} =>
              users[req[p].user].tickets
                  = UserBefore(p).tickets
                    + TicketsOfPackages(Lines(p),
                                        IndicesOfType(Lines(p), "package"))
                    - Cardinality(ReservationsOf(p))
        /\ err[p] = "not_enough_tickets" =>
              \E i \in 1..Len(IndicesOfType(Lines(p), "timeslot")) :
                  TicketsAtTimeslots(p) - (i - 1) < Catalog.timeslot.price
        /\ (pc[p] \in {"email", "done"} /\ HasType(Lines(p), "timeslot")) =>
              /\ TicketsAtTimeslots(p) >= Catalog.timeslot.price
              /\ ReservationsOf(p) # {}

\* A user without tickets whose cart has the timeslot line before the
\* package line: the order is committed, the reservation is paid with a
\* ticket of the package.
C32_Witness ==
    /\ pc["p1"] = "done"
    /\ UserBefore("p1").tickets = 0
    /\ Len(Lines("p1")) = 2
    /\ Lines("p1")[1].content_type = "timeslot"
    /\ Lines("p1")[2].content_type = "package"
    /\ Cardinality(ReservationsOf("p1")) = 1
    /\ users["u1"].tickets = 0

\* C33: no user's ticket balance is negative, whatever the price of the
\* timeslot.
C33_TicketsNeverNegative == \A u \in Users : users[u].tickets >= 0

\* C34: a committed order whose retirement reservation was admitted by the
\* remaining capacity (seats - active reservations - reserved_seats > 0)
\* leaves the reserved_seats of the retirement as they were; an order
\* admitted by the wait-queue override has decremented them by one.
C34_OrdinaryAdmissionKeepsHeldSeats ==
    \A p \in Procs : \A r \in OrderedRetirements(p) :
        pc[p] \in {"email", "done"} =>
            reserved_seats[r]
                = IF RemainingBefore(p, r) > 0
                  THEN before[p].reserved_seats[r]
                  ELSE before[p].reserved_seats[r] - 1

\* C35: for every retirement the active reservations and the reserved
\* seats together are at most the seats, and the reserved seats are not
\* negative, before and after every order creation that runs alone,
\* committed or rejected.
C35_SeatsNeverExceeded ==
    \A r \in Retirements :
        /\ Cardinality(ActiveIn(retirement_reservations, r))
               + reserved_seats[r] <= seats[r]
        /\ reserved_seats[r] >= 0

\* A committed order that took the last seat of a retirement of two seats,
\* one of them reserved by somebody else.
C35_Witness ==
    /\ pc["p1"] = "done"
    /\ "r1" \in OrderedRetirements("p1")
    /\ seats["r1"] = 2
    /\ RemainingBefore("p1", "r1") = 1
    /\ before["p1"].reserved_seats["r1"] = 0
    /\ Cardinality(ActiveIn(retirement_reservations, "r1")) = 2
    /\ \E x \in ActiveIn(retirement_reservations, "r1") : x.user = "u1"

C37_CodeOfCreatedCoupon ==
    (coupon_response.action = "create"
        /\ coupon_response.status \in {"ok", "no_code"})
    => /\ coupon_response.draws.n <= MaxAttempts
       /\ coupon_response.status = "ok" =>
              LET id == coupon_response.id
                  code == stored_coupons[id].code
              IN /\ id = Len(stored_coupons)
                 /\ code # NoCode
                 /\ \A i \in 1..(id - 1) : stored_coupons[i].code # code
                 /\ coupon_response.data.code # NoCode =>
                        /\ code = coupon_response.data.code
                        /\ coupon_response.draws.n = 0

\* A second coupon created without a code after 99 draws, 98 of them codes
\* in use.
C37_Witness ==
    /\ coupon_response.action = "create"
    /\ coupon_response.status = "ok"
    /\ coupon_response.id = 2
    /\ coupon_response.data.code = NoCode
    /\ coupon_response.draws.n = MaxAttempts - 1
    /\ stored_coupons[2].code \notin {NoCode, stored_coupons[1].code}

\* C38: the creation of a custom payment asks the gateway for one charge,
\* of the price times 100 rounded to an integer, without tax; when the
\* charge fails the creation is rejected and no CustomPayment row is
\* stored, and when it succeeds the stored row has the authorization id,
\* the settlement id and the reference number of the gateway's answer.
C38_CustomPaymentCharge ==
    payment_response.status # "none" =>
        LET calls == payment_response.calls
            answer == payment_response.charge_response
        IN /\ Len(calls) = 1
           /\ calls[1].call = "charge_payment"
           /\ calls[1].amount
                  = RoundHalfEven(payment_response.price, 10)
           /\ ~calls[1].ok =>
                  /\ payment_response.status = "rejected"
                  /\ custom_payments = {}
           /\ calls[1].ok =>
                  /\ payment_response.status = "created"
                  /\ Cardinality(custom_payments) = 1
                  /\ \A row \in custom_payments :
                         /\ row.price = payment_response.price
                         /\ row.authorization_id = answer.id
                         /\ row.settlement_id = answer.settlement
                         /\ row.reference_number = answer.merchantRefNum

\* A custom payment of 0.025 charged 2 cents (the tie goes to the even
\* cent) and stored with the ids of the answer.
C38_Witness ==
    /\ payment_response.status = "created"
    /\ payment_response.price = 25
    /\ payment_response.calls = <<Call("charge_payment", 2, TRUE)>>
    /\ \E row \in custom_payments :
           row.authorization_id = "a2" /\ row.settlement_id = "s1"

\* C39: an update of an order asks nothing of the payment gateway and
\* leaves the reservations, the users (tickets and membership) and the
\* coupon uses as they are; after it the order has at most one line per
\* content type and object; and the same update sent a second time leaves
\* the order lines as the first one left them.
C39_UpdateOfAnOrder ==
    [][order_update' # order_update =>
          /\ ext' = ext
          /\ users' = users
          /\ reservations' = reservations
          /\ retirement_reservations' = retirement_reservations
          /\ coupon_uses' = coupon_uses
          /\ \A o \in orders' :
                 o.id = order_update'.order =>
                     \A i, j \in DOMAIN o.order_lines :
                         (/\ o.order_lines[i].content_type
                                 = o.order_lines[j].content_type
                          /\ o.order_lines[i].object_id
                                 = o.order_lines[j].object_id) => i = j
          /\ order_update'.applied = 2 => orders' = orders]_vars

====
